---- MODULE Spec2Model ----
(***************************************************************************)
(* Prediction validation pipeline of DeepSeekAnalyst                        *)
(* (backend/app/engines/deepseek_analyst.py):                               *)
(*   _validate_and_fix_prediction, _validate_key_levels,                    *)
(*   _sanitize_reasoning,                                                   *)
(* and the market-structure functions that feed it                          *)
(* (backend/app/services/data_aggregator.py):                               *)
(*   _calculate_vpvr, _detect_smc_indicators, _calculate_volatility_score,  *)
(*   _calculate_pivot_points, _calculate_swing_levels.                      *)
(*                                                                          *)
(* Numbers.  The code works on Python floats.  The model works on exact     *)
(* decimals: a price x is the integer x * UNIT, and every factor of the     *)
(* code (1.0005, 0.995, 0.98, 1.5, ...) is applied as an exact fraction.    *)
(* UNIT = 2^8 * 5^6 makes every product of the pipeline an integer on the   *)
(* inputs enumerated below.                                                 *)
(*                                                                          *)
(* Text.  A string is a sequence of one-character strings.  The Chinese     *)
(* characters of the code are written in pinyin, one token per character:   *)
(*   kan (看) zhang (涨) die (跌) duo (多) kong (空) bu (不)                *)
(*   zhen (震) dang (荡)                                                    *)
(***************************************************************************)
EXTENDS Integers, Sequences, FiniteSets, TLC

VARIABLES
    ctx,      \* the context dict passed to the validator (never written)
    input,    \* value of the draft dict at the moment of the call
    result,   \* the draft dict itself: the validator mutates it in place
    fr,       \* local variables of _validate_and_fix_prediction
    pc,       \* position inside _validate_and_fix_prediction
    raised,   \* TRUE when the outer "except Exception" returned the dict
    run,      \* 1 = first call, 2 = the validator called on its own output
    out1,     \* what the first call returned (set when the second starts)
    call,     \* a call of a market-structure function: its name and arguments
    ret,      \* what that call returned
    cache,    \* TTLCache._cache: the entries in the order of the OrderedDict
    maxsize,  \* TTLCache.maxsize
    now,      \* datetime.now(), in seconds
    recency,  \* the cached keys, least recently used first (history)
    stream,   \* analyze_market_stream: its position, request and full_content
    calls,    \* the number of model API calls made so far
    analysis, \* analyze_market: its position, models and API calls
    manager,  \* MarketDataManager: subscribers, tasks and snapshots
    batch,    \* BatchAnalyzer.batch_analyze: its tasks and results
    monitor,  \* VolatilityMonitor: price history and alerts
    op        \* the last call made on a service and what it returned

\* the variables of the validator and of the market-structure functions
pipelineVars == <<ctx, input, result, fr, pc, raised, run, out1, call, ret>>

\* the variables of the cache
cacheVars == <<cache, maxsize, now, recency>>

\* the variables of the streamed analysis
streamVars == <<stream, calls>>

\* the variables of the services (backend/app/services)
serviceVars == <<cacheVars, streamVars, op, analysis, manager, batch, monitor>>

\* what the cache and the streamed analysis leave alone
restVars == <<pipelineVars, analysis, manager, batch, monitor>>

vars == <<pipelineVars, serviceVars>>

----------------------------------------------------------------------------
(* Exact decimal arithmetic *)

UNIT == (2^8) * (5^6)

\* the price n (an integer number of currency units)
Px(n) == n * UNIT

\* the price n + 0.5
PxHalf(n) == n * UNIT + UNIT \div 2

\* x * (n / d), without leaving 32-bit integers
MulDiv(x, n, d) == (x \div d) * n + ((x % d) * n) \div d

Abs(x) == IF x < 0 THEN -x ELSE x

Min2(a, b) == IF a < b THEN a ELSE b

Max2(a, b) == IF a > b THEN a ELSE b

----------------------------------------------------------------------------
(* JSON values of the draft: a key is absent, null, or holds a value *)

Num(x) == [k |-> "num", v |-> x]

NullNum == [k |-> "null", v |-> 0]

AbsentNum == [k |-> "absent", v |-> 0]

List(s) == [k |-> "list", v |-> s]

NullList == [k |-> "null", v |-> <<>>]

AbsentList == [k |-> "absent", v |-> <<>>]

Str(s) == [k |-> "str", v |-> s]

AbsentStr == [k |-> "absent", v |-> <<>>]

Zone(lo, hi) == [k |-> "dict", low |-> lo, high |-> hi]

AbsentZone == [k |-> "absent", low |-> AbsentNum, high |-> AbsentNum]

\* dict.get(key, default): the default replaces an absent key only
Get(x, default) == IF x.k = "absent" THEN default ELSE x

\* a text line of reasoning / risk_warning: what it says, and the number in it
Line(kind, arg) == [kind |-> kind, arg |-> arg]

----------------------------------------------------------------------------
(* Text of the prediction label *)

KanZhang == <<"kan", "zhang">>

KanDie == <<"kan", "die">>

ZhenDang == <<"zhen", "dang">>

\* str.lower() on the characters the drafts use
LowerChar(c) ==
    CASE c = "B" -> "b"
      [] c = "S" -> "s"
      [] c = "L" -> "l"
      [] OTHER -> c

Lower(s) == [i \in 1..Len(s) |-> LowerChar(s[i])]

\* Python's  sub in s
Contains(sub, s) ==
    \E i \in 0..(Len(s) - Len(sub)) :
        \A j \in 1..Len(sub) : s[i + j] = sub[j]

LongWords ==
    { <<"zhang">>, <<"duo">>, <<"b", "u", "l", "l">>, <<"b", "u", "y">>,
      <<"l", "o", "n", "g">> }

NotLongWords ==
    { <<"bu", "kan", "zhang">>, <<"n", "o", "t", " ", "b", "u", "l", "l">> }

ShortWords ==
    { <<"die">>, <<"kong">>, <<"b", "e", "a", "r">>, <<"s", "e", "l", "l">>,
      <<"s", "h", "o", "r", "t">> }

NotShortWords ==
    { <<"bu", "kan", "die">>, <<"n", "o", "t", " ", "b", "e", "a", "r">> }

TextLong(p) ==
    /\ \E w \in LongWords : Contains(w, p)
    /\ ~ \E w \in NotLongWords : Contains(w, p)

TextShort(p) ==
    /\ \E w \in ShortWords : Contains(w, p)
    /\ ~ \E w \in NotShortWords : Contains(w, p)

----------------------------------------------------------------------------
(* _validate_and_fix_prediction, block by block.  Every block is an operator
   of the dict r, the locals f and the context c; it yields the dict and the
   locals after the block, the block that runs next ("returned" when the
   function returns) and whether the outer except clause did the return. *)

Step(r, f, to, exc) == [r |-> r, f |-> f, to |-> to, exc |-> exc]

\* the locals before the first statement
Frame0 ==
    [ p |-> <<>>, current_price |-> 0, entry_low |-> 0, entry_high |-> 0,
      avg_entry |-> 0, tps |-> <<>>, sl |-> 0, risk_dist |-> 0,
      is_long |-> FALSE, is_short |-> FALSE,
      is_price_long |-> FALSE, is_price_short |-> FALSE,
      is_text_long |-> FALSE, is_text_short |-> FALSE ]

\* entry_zone = result.get("entry_zone", {}); if not entry_zone: {cp, cp}
EntryZoneOf(r, cp) ==
    IF r.entry_zone.k = "absent"
       \/ (r.entry_zone.low.k = "absent" /\ r.entry_zone.high.k = "absent")
    THEN Zone(Num(cp), Num(cp))
    ELSE r.entry_zone

\* float(None) and iterating None raise TypeError
ExtractRaises(r, c) ==
    LET ez == EntryZoneOf(r, c.current_price) IN
    \/ Get(ez.low, Num(c.current_price)).k = "null"
    \/ Get(ez.high, Num(c.current_price)).k = "null"
    \/ Get(r.take_profit, List(<<>>)).k = "null"
    \/ Get(r.stop_loss, Num(0)).k = "null"

\* lines 872-888: read the label, the entry zone, the targets and the stop
Extract(r, f, c) ==
    LET cp == c.current_price
        ez == EntryZoneOf(r, cp)
        lo0 == Get(ez.low, Num(cp)).v
        hi0 == Get(ez.high, Num(cp)).v
        lo == IF lo0 > hi0 THEN hi0 ELSE lo0
        hi == IF lo0 > hi0 THEN lo0 ELSE hi0
    IN  IF ExtractRaises(r, c)
        THEN Step(r, f, "returned", TRUE)
        ELSE Step(r,
                  [f EXCEPT !.p = Lower(Get(r.prediction, Str(<<>>)).v),
                            !.current_price = cp,
                            !.entry_low = lo,
                            !.entry_high = hi,
                            !.avg_entry = (lo + hi) \div 2,
                            !.tps = Get(r.take_profit, List(<<>>)).v,
                            !.sl = Get(r.stop_loss, Num(0)).v],
                  "direction", FALSE)

\* line 915 with the second half of the test lost
DirectionConflictLongOnly(f) == f.is_price_long /\ f.is_text_short

\* line 915: the price relation and the label point opposite ways
DirectionConflict(f) ==
    \/ (f.is_price_long /\ f.is_text_short)
    \/ (f.is_price_short /\ f.is_text_long)

\* lines 919-924: the two explanatory lines go to the front of the lists
InsertConflictLines(r, tp0) ==
    [r EXCEPT
       !.reasoning =
           List(<<Line("direction_conflict", tp0)>>
                \o (IF r.reasoning.k = "list" THEN r.reasoning.v ELSE <<>>)),
       !.risk_warning =
           List(<<Line("conflict_downgrade", 0)>>
                \o (IF r.risk_warning.k = "list" THEN r.risk_warning.v
                    ELSE <<>>))]

\* lines 890-934: direction from the first target, from the label, conflict
ResolveDirection(r, f, c) ==
    LET priced == f.tps # <<>> /\ f.tps[1] # f.avg_entry
        f1 == [f EXCEPT
                 !.is_price_long = priced /\ f.tps[1] > f.avg_entry,
                 !.is_price_short = priced /\ ~(f.tps[1] > f.avg_entry),
                 !.is_text_long = TextLong(f.p),
                 !.is_text_short = TextShort(f.p)]
        unpriced == ~f1.is_price_long /\ ~f1.is_price_short
        conflict == ~unpriced /\ DirectionConflict(f1)
        f2 == [f1 EXCEPT
                 !.is_long = IF unpriced THEN f1.is_text_long
                             ELSE IF conflict THEN FALSE
                             ELSE f1.is_price_long,
                 !.is_short = IF unpriced THEN f1.is_text_short
                              ELSE IF conflict THEN FALSE
                              ELSE f1.is_price_short]
        r1 == IF conflict THEN InsertConflictLines(r, f.tps[1]) ELSE r
        label == IF f2.is_long THEN KanZhang
                 ELSE IF f2.is_short THEN KanDie
                 ELSE ZhenDang
    IN  Step([r1 EXCEPT !.prediction = Str(label)], f2, "antichase", FALSE)

\* lines 938-946: a long entry may not sit above the price by more than 0.05%
ClampLong(f) ==
    IF f.entry_high > MulDiv(f.current_price, 2001, 2000)
    THEN [f EXCEPT
            !.entry_high = f.current_price,
            !.entry_low = IF f.entry_low > f.current_price
                          THEN MulDiv(f.current_price, 199, 200)
                          ELSE f.entry_low]
    ELSE f

\* lines 948-956: a short entry may not sit below the price by more than 0.05%
ClampShort(f) ==
    IF f.entry_low < MulDiv(f.current_price, 1999, 2000)
    THEN [f EXCEPT
            !.entry_low = f.current_price,
            !.entry_high = IF f.entry_high < f.current_price
                           THEN MulDiv(f.current_price, 201, 200)
                           ELSE f.entry_high]
    ELSE f

\* lines 936-964: clamp, write the parsed values back, return when neutral
AntiChase(r, f, c) ==
    LET f1 == IF f.is_long THEN ClampLong(f)
              ELSE IF f.is_short THEN ClampShort(f)
              ELSE f
        r1 == [r EXCEPT
                 !.entry_zone = Zone(Num(f1.entry_low), Num(f1.entry_high)),
                 !.stop_loss = Num(f1.sl),
                 !.take_profit = List(f1.tps)]
    IN  IF ~f1.is_long /\ ~f1.is_short
        THEN Step(r1, f1, "returned", FALSE)
        ELSE Step(r1, f1, "fix", FALSE)

\* lines 978-983 and 997-1002: a stop on the wrong side of the entry zone
FixedStop(f, atr) ==
    IF f.is_long
    THEN IF f.sl >= f.entry_low
         THEN IF atr > 0 THEN f.entry_low - MulDiv(atr, 3, 2)
              ELSE MulDiv(f.entry_low, 49, 50)
         ELSE f.sl
    ELSE IF f.sl <= f.entry_high
         THEN IF atr > 0 THEN f.entry_high + MulDiv(atr, 3, 2)
              ELSE MulDiv(f.entry_high, 51, 50)
         ELSE f.sl

\* lines 987-992 and 1006-1011: targets beyond the entry zone, else a ladder
FixedTargets(f, tps, avg) ==
    LET valid == IF f.is_long
                 THEN SelectSeq(tps, LAMBDA tp : tp > f.entry_high)
                 ELSE SelectSeq(tps, LAMBDA tp : tp < f.entry_low)
    IN  IF valid # <<>> THEN valid
        ELSE IF f.is_long
             THEN << MulDiv(avg, 51, 50), MulDiv(avg, 26, 25),
                     MulDiv(avg, 53, 50) >>
             ELSE << MulDiv(avg, 49, 50), MulDiv(avg, 24, 25),
                     MulDiv(avg, 47, 50) >>

\* lines 966-1011: default target, stop placement, target sanity
FixStopAndTargets(r, f, c) ==
    LET avg == (f.entry_low + f.entry_high) \div 2
        tps == IF f.tps = <<>>
               THEN IF f.is_long THEN << MulDiv(avg, 51, 50) >>
                    ELSE << MulDiv(avg, 49, 50) >>
               ELSE f.tps
        sl == FixedStop(f, c.atr)
    IN  Step([r EXCEPT !.stop_loss = Num(sl),
                       !.take_profit = List(FixedTargets(f, tps, avg))],
             [f EXCEPT !.avg_entry = avg, !.tps = tps, !.sl = sl],
             "tp1", FALSE)

\* lines 1013-1028: the first target is forced to the 1:1 distance; the list
\* written back is the local tps, not the filtered list of lines 987-1011
BreakevenTP1(r, f, c) ==
    LET sl == r.stop_loss.v
        avg == (f.entry_low + f.entry_high) \div 2
        risk == Abs(avg - sl)
        target == IF f.is_long THEN avg + risk ELSE avg - risk
        tps == IF f.tps = <<>>
               THEN << target, target + MulDiv(risk, 1, 2),
                       target + MulDiv(risk, 3, 2) >>
               ELSE [f.tps EXCEPT ![1] = target]
        f1 == [f EXCEPT !.sl = sl, !.avg_entry = avg, !.risk_dist = risk]
    IN  IF risk > 0
        THEN Step([r EXCEPT !.take_profit = List(tps)],
                  [f1 EXCEPT !.tps = tps], "rrr", FALSE)
        ELSE Step(r, f1, "rrr", FALSE)

\* list.insert(0, line) on result["reasoning"]
InsertReasoning(r, line) ==
    [r EXCEPT !.reasoning = List(<<line>> \o r.reasoning.v)]

\* list.append(line) on result["reasoning"]
AppendReasoning(r, line) ==
    [r EXCEPT !.reasoning = List(Append(r.reasoning.v, line))]

\* result["take_profit"][-1] = x
SetLastTarget(r, x) ==
    [r EXCEPT !.take_profit =
        List([r.take_profit.v EXCEPT ![Len(r.take_profit.v)] = x])]

\* line 1037: rrr < 1.5, with rrr = reward / risk_dist and risk_dist > 0
RRRBelowTarget(reward, risk) == 2 * reward < 3 * risk

\* line 1039: rrr < 1.0
RRRBelowOne(reward, risk) == reward < risk

\* lines 1030-1049: total reward:risk on the last target.  The inner
\* "except Exception" swallows the KeyError of result["reasoning"] when the
\* draft has no reasoning list, and the function then goes on.
RRRCheck(r, f, c) ==
    LET tp == r.take_profit.v
        reward == Abs(tp[Len(tp)] - f.avg_entry)
        risk == f.risk_dist
        haslist == r.reasoning.k = "list"
        down == [r EXCEPT !.prediction = Str(ZhenDang)]
        up == SetLastTarget(r, IF f.is_long
                               THEN f.avg_entry + MulDiv(risk, 8, 5)
                               ELSE f.avg_entry - MulDiv(risk, 8, 5))
    IN  IF risk > 0 /\ RRRBelowTarget(reward, risk)
        THEN IF RRRBelowOne(reward, risk)
             THEN IF haslist
                  THEN Step(InsertReasoning(down, Line("rrr_downgrade", 0)),
                            f, "returned", FALSE)
                  ELSE Step(down, f, "pro", FALSE)
             ELSE IF haslist
                  THEN Step(InsertReasoning(up, Line("rrr_adjusted", 0)),
                            f, "pro", FALSE)
                  ELSE Step(up, f, "pro", FALSE)
        ELSE Step(r, f, "pro", FALSE)

\* lines 1057-1064: a stop within half an ATR of the vacuum node is moved away
VacuumStop(f, lvn, atr) ==
    IF 2 * Abs(f.sl - lvn) < atr
    THEN IF f.is_long THEN Min2(f.sl, lvn) - MulDiv(atr, 1, 2)
         ELSE Max2(f.sl, lvn) + MulDiv(atr, 1, 2)
    ELSE f.sl

\* lines 1069-1075: the entry zone touches an order block of the same side
TouchesOrderBlock(f, obs) ==
    \E i \in 1..Len(obs) :
        /\ (obs[i].type = "bullish" /\ f.is_long)
           \/ (obs[i].type = "bearish" /\ f.is_short)
        /\ f.entry_low <= obs[i].top
        /\ f.entry_high >= obs[i].bottom

\* lines 1081-1084: the price has already reached the first target
PriceBeyondTP1(f, tp1) ==
    \/ (f.is_long /\ f.current_price >= tp1)
    \/ (f.is_short /\ f.current_price <= tp1)

\* lines 1051-1084: vacuum-node stop guard, order-block note, TP1 hint.
\* result["reasoning"].append / .insert raise KeyError without a reasoning
\* list; here the outer except clause returns the dict as it stands.
ProGuards(r, f, c) ==
    LET lvn == c.vpvr_lvn
        atr == IF c.atr # 0 THEN c.atr ELSE MulDiv(f.avg_entry, 1, 100)
        moved == lvn # 0 /\ f.sl # 0 /\ VacuumStop(f, lvn, atr) # f.sl
        f1 == IF moved THEN [f EXCEPT !.sl = VacuumStop(f, lvn, atr)] ELSE f
        r1 == IF moved THEN [r EXCEPT !.stop_loss = Num(f1.sl)] ELSE r
        haslist == r.reasoning.k = "list"
        r2 == IF moved THEN AppendReasoning(r1, Line("vacuum_stop", 0)) ELSE r1
        r3 == IF TouchesOrderBlock(f1, c.order_blocks)
              THEN [r2 EXCEPT !.summary = @ + 1] ELSE r2
        tp1 == r3.take_profit.v[1]
        hint == r3.take_profit.v # <<>> /\ PriceBeyondTP1(f1, tp1)
    IN  IF moved /\ ~haslist
        THEN Step(r1, f1, "returned", TRUE)
        ELSE IF hint /\ ~haslist
             THEN Step(r3, f1, "returned", TRUE)
             ELSE IF hint
                  THEN Step(InsertReasoning(r3, Line("tp1_reached", tp1)),
                            f1, "guards", FALSE)
                  ELSE Step(r3, f1, "guards", FALSE)

\* lines 1089-1096: a target farther than 5 ATR from the entry is pulled in
ClampTarget(f, atr, i, tp) ==
    IF Abs(tp - f.avg_entry) > 5 * atr
    THEN IF f.is_long THEN f.avg_entry + atr * 3 * i
         ELSE f.avg_entry - atr * 3 * i
    ELSE tp

\* lines 1100-1107: an entry zone wider than 2 ATR shrinks to half an ATR
NarrowZone(f, atr) ==
    IF Abs(f.entry_high - f.entry_low) > 2 * atr
    THEN Zone(Num((f.entry_low + f.entry_high) \div 2 - MulDiv(atr, 1, 4)),
              Num((f.entry_low + f.entry_high) \div 2 + MulDiv(atr, 1, 4)))
    ELSE Zone(Num(f.entry_low), Num(f.entry_high))

\* lines 1086-1107: target distance and entry width guards
HallucinationGuards(r, f, c) ==
    LET tp == r.take_profit.v
        r1 == IF c.atr > 0 /\ tp # <<>>
              THEN [r EXCEPT !.take_profit =
                      List([i \in 1..Len(tp) |->
                               ClampTarget(f, c.atr, i, tp[i])])]
              ELSE r
        r2 == IF c.atr > 0 /\ Abs(f.entry_high - f.entry_low) > 2 * c.atr
              THEN [r1 EXCEPT !.entry_zone = NarrowZone(f, c.atr)]
              ELSE r1
    IN  Step(r2, f, "confidence", FALSE)

\* lines 1114-1130: the confidence allowed with n signal conflicts
Calibrated(conf, n) ==
    IF n >= 3 /\ conf > 60 THEN Min2(conf, 60)
    ELSE IF n >= 2 /\ conf > 70 THEN Min2(conf, 70)
    ELSE IF n >= 1 /\ conf > 85 THEN Min2(conf, 80)
    ELSE conf

\* lines 1109-1130: confidence calibration against the signal conflicts
CalibrateConfidence(r, f, c) ==
    LET conf == Get(r.confidence, Num(50)).v
        n == Len(c.signal_conflicts)
        new == Calibrated(conf, n)
        r1 == IF r.risk_warning.k = "list" THEN r
              ELSE [r EXCEPT !.risk_warning = List(<<>>)]
        r2 == IF new # conf THEN [r1 EXCEPT !.confidence = Num(new)] ELSE r1
        r3 == IF new # conf /\ n >= 2
              THEN [r2 EXCEPT !.risk_warning =
                      List(Append(r2.risk_warning.v,
                                  Line(IF n >= 3 THEN "many_conflicts"
                                       ELSE "conflicts", new)))]
              ELSE r2
    IN  Step(r3, f, "key_levels", FALSE)

----------------------------------------------------------------------------
(* _validate_key_levels *)

Levels(ss, ws, sr, wr, cp) ==
    [ k |-> "dict", strong_support |-> ss, weak_support |-> ws,
      strong_resistance |-> sr, weak_resistance |-> wr, current_price |-> cp ]

AbsentLevels ==
    [ k |-> "absent", strong_support |-> AbsentNum, weak_support |-> AbsentNum,
      strong_resistance |-> AbsentNum, weak_resistance |-> AbsentNum,
      current_price |-> AbsentNum ]

\* lines 1171-1176 with > in place of >=
AnchoredSupportStrict(level, cp, n, d) ==
    IF Get(level, Num(0)).v > 0 /\ Get(level, Num(0)).v > cp
    THEN Num(MulDiv(cp, n, d))
    ELSE level

\* lines 1171-1176: a support that is set (> 0) and not below the price is
\* replaced by the price times n/d
AnchoredSupport(level, cp, n, d) ==
    IF Get(level, Num(0)).v > 0 /\ Get(level, Num(0)).v >= cp
    THEN Num(MulDiv(cp, n, d))
    ELSE level

\* lines 1179-1184: a resistance that is set (> 0) and not above the price is
\* replaced by the price times n/d
AnchoredResistance(level, cp, n, d) ==
    IF Get(level, Num(0)).v > 0 /\ Get(level, Num(0)).v <= cp
    THEN Num(MulDiv(cp, n, d))
    ELSE level

\* lines 1144-1203
ValidateKeyLevels(r, c) ==
    LET cp == c.current_price
        kl == r.key_levels
    IN  IF cp = 0 THEN r
        ELSE [r EXCEPT !.key_levels =
                Levels(AnchoredSupport(kl.strong_support, cp, 19, 20),
                       AnchoredSupport(kl.weak_support, cp, 49, 50),
                       AnchoredResistance(kl.strong_resistance, cp, 21, 20),
                       AnchoredResistance(kl.weak_resistance, cp, 51, 50),
                       Num(cp))]

----------------------------------------------------------------------------
(* _sanitize_reasoning.  A line is one of
     plain               no price phrase
     break_support       "跌破支撑X"       break_resistance  "突破阻力X"
     support             "支撑位X"
   and the rewritten forms
     support_broken      "已跌破前支撑X(当前价..已在其下方)"
     resistance_broken   "已突破前阻力X(当前价..已在其上方)"
     support_lost        "前支撑位X(已失守，当前价在其下方)"
   or a line the validator wrote itself; arg is the price X. *)

\* lines 1220-1271: fix_price_logic
FixPriceLogic(line, cp) ==
    IF line.kind = "break_support" /\ line.arg > cp
    THEN Line("support_broken", line.arg)
    ELSE IF line.kind = "break_resistance" /\ line.arg < cp
    THEN Line("resistance_broken", line.arg)
    ELSE IF line.kind = "support" /\ line.arg > MulDiv(cp, 101, 100)
    THEN Line("support_lost", line.arg)
    ELSE line

\* result.get(key, []) rewritten line by line
FixedLines(lines, cp) ==
    List([i \in 1..Len(lines.v) |-> FixPriceLogic(lines.v[i], cp)])

\* lines 1205-1286
SanitizeReasoning(r, c) ==
    IF c.current_price = 0 THEN r
    ELSE [r EXCEPT !.reasoning = FixedLines(r.reasoning, c.current_price),
                   !.risk_warning = FixedLines(r.risk_warning, c.current_price)]

----------------------------------------------------------------------------
(* The drafts and contexts the validator is run on *)

\* longest take_profit list of an enumerated draft
MaxTargets == 2

\* largest number of signal conflicts of an enumerated context
MaxConflicts == 3

Draft(pred, ez, sl, tp, conf, reas, rw, kl) ==
    [ prediction |-> pred, entry_zone |-> ez, stop_loss |-> sl,
      take_profit |-> tp, confidence |-> conf, reasoning |-> reas,
      risk_warning |-> rw, key_levels |-> kl, summary |-> 0 ]

Context(cp, atr, n, lvn, obs) ==
    [ current_price |-> cp, atr |-> atr,
      signal_conflicts |-> [i \in 1..n |-> "conflict"],
      vpvr_lvn |-> lvn, order_blocks |-> obs ]

Bullish == <<"B", "u", "l", "l", "i", "s", "h">>

Labels == { Str(KanZhang), Str(KanDie), Str(ZhenDang), AbsentStr }

OddLabels ==
    { Str(Bullish), Str(<<"bu", "kan", "zhang">>), Str(<<"duo", "kong">>),
      Str(<<"S", "e", "l", "l">>) }

Zones ==
    { AbsentZone,
      Zone(Num(Px(100)), Num(Px(102))),
      Zone(Num(Px(105)), Num(Px(110))),
      Zone(Num(Px(90)), Num(Px(95))),
      Zone(Num(Px(130)), Num(Px(80))),
      Zone(Num(Px(80)), Num(Px(100))),
      Zone(Num(0), Num(0)),
      Zone(NullNum, Num(Px(102))) }

Stops == { AbsentNum, NullNum, Num(Px(95)), Num(Px(108)) }

TargetPrices == { Px(90), PxHalf(103), Px(110), Px(130) }

SeqsUpTo(S, n) == UNION { [1..m -> S] : m \in 0..n }

TargetLists ==
    { List(t) : t \in SeqsUpTo(TargetPrices, MaxTargets) }
    \cup { AbsentList, NullList }

PlainLines == List(<<Line("plain", 0)>>)

DefaultLevels ==
    Levels(Num(Px(90)), AbsentNum, Num(Px(120)), AbsentNum, Num(Px(500)))

\* every label, entry zone, stop and target list, with and without an ATR
PriceDrafts ==
    { Draft(pred, ez, sl, tp, Num(75), PlainLines, PlainLines, DefaultLevels) :
        pred \in Labels, ez \in Zones, sl \in Stops, tp \in TargetLists }

\* price set-ups used where the other fields of the draft vary:
\* <<label, entry zone, stop, targets>>
Setups ==
    { <<Str(KanZhang), Zone(Num(Px(100)), Num(Px(102))), Num(Px(95)),
        List(<<Px(110), Px(115)>>)>>,
      <<Str(KanZhang), Zone(Num(Px(100)), Num(Px(102))), Num(Px(95)),
        List(<<PxHalf(103)>>)>>,
      <<Str(KanZhang), Zone(Num(Px(100)), Num(Px(102))), Num(Px(95)),
        List(<<Px(110), Px(103)>>)>>,
      <<Str(KanZhang), Zone(Num(Px(90)), Num(Px(95))), Num(Px(88)),
        List(<<Px(110)>>)>>,
      <<Str(KanDie), Zone(Num(PxHalf(100)), Num(PxHalf(101))), Num(Px(108)),
        List(<<Px(90), Px(85)>>)>>,
      <<Str(KanDie), Zone(Num(Px(100)), Num(Px(102))), Num(Px(95)),
        List(<<Px(120)>>)>>,
      <<Str(ZhenDang), Zone(Num(Px(100)), Num(Px(102))), Num(Px(95)),
        List(<<Px(101)>>)>>,
      <<Str(KanZhang), Zone(Num(Px(105)), Num(Px(110))), NullNum,
        List(<<Px(115)>>)>> }

SetupDraft(su, conf, reas, rw, kl) ==
    Draft(su[1], su[2], su[3], su[4], conf, reas, rw, kl)

Confidences == { AbsentNum, Num(55), Num(65), Num(75), Num(83), Num(90) }

\* the confidence of the draft against the number of signal conflicts
ConfidenceDrafts ==
    { SetupDraft(su, conf, PlainLines, PlainLines, DefaultLevels) :
        su \in Setups, conf \in Confidences }

LevelValues == { AbsentNum, Num(0), Num(Px(90)), Num(Px(101)), Num(Px(120)) }

\* the key levels of the draft on either side of the price
LevelDrafts ==
    { SetupDraft(su, Num(75), PlainLines, PlainLines,
                 Levels(ss, ws, sr, wr, cp)) :
        su \in Setups, ss \in LevelValues, ws \in { AbsentNum, Num(Px(120)) },
        sr \in LevelValues, wr \in { AbsentNum, Num(Px(90)) },
        cp \in { AbsentNum, Num(Px(500)) } }
    \cup { SetupDraft(su, Num(75), PlainLines, PlainLines, AbsentLevels) :
             su \in Setups }

ReasoningLists ==
    { AbsentList, List(<<>>), PlainLines,
      List(<<Line("break_support", Px(110)), Line("support", Px(95))>>),
      List(<<Line("break_resistance", Px(90)), Line("support", Px(120))>>) }

WarningLists ==
    { AbsentList, PlainLines, List(<<Line("break_support", Px(95))>>) }

\* the text lists of the draft, present or not, with price phrases or not
TextDrafts ==
    { SetupDraft(su, Num(75), reas, rw, DefaultLevels) :
        su \in Setups, reas \in ReasoningLists, rw \in WarningLists }

\* labels the keyword scan reads in an unusual way
LabelDrafts ==
    { Draft(pred, Zone(Num(Px(100)), Num(Px(102))), Num(Px(95)), List(tp),
            Num(75), PlainLines, PlainLines, DefaultLevels) :
        pred \in OddLabels, tp \in { <<>>, <<Px(110)>>, <<Px(90)>> } }

OrderBlocks ==
    { <<>>,
      << [type |-> "bullish", top |-> Px(101), bottom |-> Px(99)] >>,
      << [type |-> "bearish", top |-> Px(90), bottom |-> Px(85)],
         [type |-> "bearish", top |-> Px(102), bottom |-> Px(101)] >> }

Price == Px(101)

\* no market-structure function is being called
NoCall == [fn |-> "none"]

\* the call has not returned yet
Pending == [k |-> "pending"]

\* no call was made on a service
NoOp == [name |-> "none"]

\* analyze_market_stream is not running
NoStream == [pc |-> "idle"]

\* the cache is empty
CacheIdle ==
    /\ cache = << >>
    /\ maxsize = 1
    /\ now = 0
    /\ recency = << >>

StreamIdle == stream = NoStream /\ calls = 0

\* an object that is not in use
Unused == [pc |-> "unused"]

RestIdle ==
    /\ analysis = Unused
    /\ manager = Unused
    /\ batch = Unused
    /\ monitor = Unused

\* the services are not in use
ServicesIdle ==
    /\ CacheIdle
    /\ StreamIdle
    /\ RestIdle
    /\ op = NoOp

Init ==
    /\ \/ /\ input \in PriceDrafts \cup LabelDrafts
          /\ ctx \in { Context(Price, atr, 0, 0, <<>>) : atr \in { 0, Px(3) } }
       \/ /\ input \in ConfidenceDrafts
          /\ ctx \in { Context(Price, Px(3), n, 0, <<>>) :
                         n \in 0..MaxConflicts }
       \/ /\ input \in LevelDrafts
          /\ ctx = Context(Price, Px(3), 0, 0, <<>>)
       \/ /\ input \in TextDrafts
          /\ ctx \in { Context(Price, atr, 0, lvn, obs) :
                         atr \in { 0, Px(3) },
                         lvn \in { 0, Px(95), Px(108) },
                         obs \in OrderBlocks }
    /\ result = input
    /\ fr = Frame0
    /\ pc = "extract"
    /\ raised = FALSE
    /\ run = 1
    /\ out1 = input
    /\ call = NoCall
    /\ ret = Pending
    /\ ServicesIdle

----------------------------------------------------------------------------
(* One action per block of _validate_and_fix_prediction *)

Take(s) ==
    /\ result' = s.r
    /\ fr' = s.f
    /\ pc' = s.to
    /\ raised' = s.exc
    /\ UNCHANGED <<ctx, input, run, out1, call, ret>>
    /\ UNCHANGED serviceVars

DoExtract == pc = "extract" /\ Take(Extract(result, fr, ctx))

DoResolveDirection ==
    pc = "direction" /\ Take(ResolveDirection(result, fr, ctx))

DoAntiChase == pc = "antichase" /\ Take(AntiChase(result, fr, ctx))

DoFixStopAndTargets == pc = "fix" /\ Take(FixStopAndTargets(result, fr, ctx))

DoBreakevenTP1 == pc = "tp1" /\ Take(BreakevenTP1(result, fr, ctx))

DoRRRCheck == pc = "rrr" /\ Take(RRRCheck(result, fr, ctx))

DoProGuards == pc = "pro" /\ Take(ProGuards(result, fr, ctx))

DoHallucinationGuards ==
    pc = "guards" /\ Take(HallucinationGuards(result, fr, ctx))

DoCalibrateConfidence ==
    pc = "confidence" /\ Take(CalibrateConfidence(result, fr, ctx))

\* line 1133
DoValidateKeyLevels ==
    pc = "key_levels"
    /\ Take(Step(ValidateKeyLevels(result, ctx), fr, "sanitize", FALSE))

\* lines 1136-1138
DoSanitizeReasoning ==
    pc = "sanitize"
    /\ Take(Step(SanitizeReasoning(result, ctx), fr, "returned", FALSE))

\* the caller hands the returned dict to the validator once more
Revalidate ==
    /\ pc = "returned"
    /\ run = 1
    /\ run' = 2
    /\ out1' = result
    /\ input' = result
    /\ fr' = Frame0
    /\ pc' = "extract"
    /\ raised' = FALSE
    /\ UNCHANGED <<ctx, result, call, ret>>
    /\ UNCHANGED serviceVars

Next ==
    \/ DoExtract
    \/ DoResolveDirection
    \/ DoAntiChase
    \/ DoFixStopAndTargets
    \/ DoBreakevenTP1
    \/ DoRRRCheck
    \/ DoProGuards
    \/ DoHallucinationGuards
    \/ DoCalibrateConfidence
    \/ DoValidateKeyLevels
    \/ DoSanitizeReasoning
    \/ Revalidate

Spec == Init /\ [][Next]_vars

----------------------------------------------------------------------------
(* Market-structure functions of data_aggregator.py.

   A candle series (the DataFrame df) is a sequence of candles, oldest first;
   the last candle is the one still in progress.  A price p is the integer
   p * TICK; TICK = 2^4 * 3 * 5^3 makes the bin edges, the bin midpoints and
   the thousandths of a price integers on the series enumerated below. *)

TICK == (2^4) * 3 * (5^3)

\* the price n (an integer number of currency units)
Tk(n) == n * TICK

Candle(o, h, l, c, v) ==
    [open |-> o, high |-> h, low |-> l, close |-> c, volume |-> v]

RECURSIVE SumTo(_, _)
\* f[1] + ... + f[n]
SumTo(f, n) == IF n = 0 THEN 0 ELSE f[n] + SumTo(f, n - 1)

RECURSIVE Gcd(_, _)
Gcd(a, b) == IF b = 0 THEN a ELSE Gcd(b, a % b)

Lcm(a, b) == (a \div Gcd(a, b)) * b

RECURSIVE LcmTo(_, _)
\* least common multiple of f[1], ..., f[n]
LcmTo(f, n) == IF n = 0 THEN 1 ELSE Lcm(f[n], LcmTo(f, n - 1))

\* df['high'].max() and df['low'].min() over the rows lo..hi of df
MaxHigh(df, lo, hi) ==
    CHOOSE x \in { df[i].high : i \in lo..hi } :
        \A i \in lo..hi : df[i].high <= x

MinLow(df, lo, hi) ==
    CHOOSE x \in { df[i].low : i \in lo..hi } :
        \A i \in lo..hi : df[i].low >= x

\* np.argmax replaced by the first index, whatever the values
ArgFirstIn(f, S) == CHOOSE i \in S : \A j \in S : i <= j

\* np.argmax / np.argmin of f over the indices S: the first index that holds
\* the extreme value
ArgMaxIn(f, S) ==
    CHOOSE i \in S : \A j \in S : f[j] < f[i] \/ (f[j] = f[i] /\ i <= j)

ArgMinIn(f, S) ==
    CHOOSE i \in S : \A j \in S : f[j] > f[i] \/ (f[j] = f[i] /\ i <= j)

----------------------------------------------------------------------------
(* _calculate_vpvr *)

\* line 1405: price_bins[i] of np.linspace(low, high, bins + 1), i = 0..bins
PriceBin(low, high, bins, i) == low + (i * (high - low)) \div bins

\* lines 1411-1415: bin i (0-based) touches the candle's [low, high]
InMask(row, low, high, bins, i) ==
    /\ PriceBin(low, high, bins, i) <= row.high
    /\ PriceBin(low, high, bins, i + 1) >= row.low

\* mask.sum(): the number of bins the candle touches
MaskSum(row, low, high, bins) ==
    Cardinality({ i \in 0..(bins - 1) : InMask(row, low, high, bins, i) })

RECURSIVE MaskSumsTo(_, _, _, _, _)
\* mask.sum() of the rows 1..n
MaskSumsTo(df, low, high, bins, n) ==
    IF n = 0 THEN << >>
    ELSE Append(MaskSumsTo(df, low, high, bins, n - 1),
                MaskSum(df[n], low, high, bins))

\* the number the volumes are multiplied by so that volume / mask.sum() is an
\* integer for every candle: a common multiple of the mask sizes
ShareScale(sums) == LcmTo([j \in 1..Len(sums) |-> Max2(1, sums[j])], Len(sums))

\* lines 1408-1418: volume_profile[i] times ShareScale; a candle gives each
\* bin it touches volume / mask.sum(), and nothing when it touches no bin
BinVolume(df, low, high, bins, sums, i) ==
    SumTo([j \in 1..Len(df) |->
              IF InMask(df[j], low, high, bins, i)
              THEN (df[j].volume * ShareScale(sums)) \div sums[j]
              ELSE 0], Len(df))

RECURSIVE ProfileTo(_, _, _, _, _, _)
\* the first n entries of volume_profile
ProfileTo(df, low, high, bins, sums, n) ==
    IF n = 0 THEN << >>
    ELSE Append(ProfileTo(df, low, high, bins, sums, n - 1),
                BinVolume(df, low, high, bins, sums, n - 1))

\* lines 1406-1418: volume_profile as a sequence, bin i (0-based) at
\* position i + 1, every entry times ShareScale
VolumeProfile(df, low, high, bins) ==
    ProfileTo(df, low, high, bins,
              MaskSumsTo(df, low, high, bins, Len(df)), bins)

\* lines 1422, 1433, 1436: midpoint of bin i
BinMid(low, high, bins, i) ==
    (PriceBin(low, high, bins, i) + PriceBin(low, high, bins, i + 1)) \div 2

\* line 1427: the bins lying wholly within 5% of the price
NearbyMask(cp, low, high, bins) ==
    { i \in 0..(bins - 1) :
        /\ PriceBin(low, high, bins, i) >= MulDiv(cp, 19, 20)
        /\ PriceBin(low, high, bins, i + 1) <= MulDiv(cp, 21, 20) }

\* lines 1428-1436: the vacuum bin, sought near the price first
VacuumBin(profile, cp, low, high, bins) ==
    IF NearbyMask(cp, low, high, bins) # {}
    THEN ArgMinIn(profile,
                  { i + 1 : i \in NearbyMask(cp, low, high, bins) }) - 1
    ELSE ArgMinIn(profile, 1..bins) - 1

\* lines 1396-1397, 1401-1402: too few candles, or no price range
NoProfile == [k |-> "dict", hvn |-> NullNum, lvn |-> NullNum]

\* lines 1390-1440
CalculateVpvr(df, bins) ==
    IF Len(df) < 5 THEN NoProfile
    ELSE LET low == MinLow(df, 1, Len(df))
             high == MaxHigh(df, 1, Len(df))
             profile == VolumeProfile(df, low, high, bins)
             max_idx == ArgMaxIn(profile, 1..bins) - 1
             current_price == df[Len(df)].close
         IN  IF high = low THEN NoProfile
             ELSE [ k |-> "dict",
                    hvn |-> Num(BinMid(low, high, bins, max_idx)),
                    lvn |-> Num(BinMid(low, high, bins,
                                       VacuumBin(profile, current_price,
                                                 low, high, bins))) ]

----------------------------------------------------------------------------
(* _detect_smc_indicators *)

\* lines 1462-1467 and 1469-1475: the gap of the window (k1, k2, k3); size_pct
\* is kept as the fraction n / d
BullishGap(k1, k3) ==
    [ type |-> "bullish", top |-> k3.low, bottom |-> k1.high,
      size_pct |-> [n |-> (k3.low - k1.high) * 100, d |-> k1.high] ]

BearishGap(k1, k3) ==
    [ type |-> "bearish", top |-> k1.low, bottom |-> k3.high,
      size_pct |-> [n |-> (k1.low - k3.high) * 100, d |-> k1.low] ]

\* lines 1462 and 1470 with >= and <= in place of > and <
FvgAtInclusive(df, i) ==
    IF df[i].low >= df[i - 2].high THEN << BullishGap(df[i - 2], df[i]) >>
    ELSE IF df[i].high <= df[i - 2].low
    THEN << BearishGap(df[i - 2], df[i]) >>
    ELSE << >>

\* lines 1457-1475: what the window ending at row i appends to fvgs
FvgAt(df, i) ==
    IF df[i].low > df[i - 2].high THEN << BullishGap(df[i - 2], df[i]) >>
    ELSE IF df[i].high < df[i - 2].low THEN << BearishGap(df[i - 2], df[i]) >>
    ELSE << >>

RECURSIVE FvgsTo(_, _)
\* lines 1456-1475: fvgs after the windows ending at rows 3..n, oldest first
FvgsTo(df, n) == IF n < 3 THEN << >> ELSE FvgsTo(df, n - 1) \o FvgAt(df, n)

\* line 1484: df['close'].diff().abs().rolling(10).mean() at row n is a number
\* only when ten differences end there
HasAvgBody(n) == n >= 11

\* the sum of the ten absolute close-to-close differences ending at row n
BodySum(df, n) ==
    SumTo([u \in 1..10 |-> Abs(df[n - 10 + u].close - df[n - 11 + u].close)],
          10)

\* lines 1483-1487: body_size > avg_body * 1.5, avg_body being body_size
\* itself where the rolling mean is NaN
Impulsive(df, n) ==
    LET body_size == Abs(df[n].close - df[n].open) IN
    IF HasAvgBody(n) THEN 20 * body_size > 3 * BodySum(df, n)
    ELSE 2 * body_size > 3 * body_size

OrderBlock(type, k_prev) ==
    [ type |-> type, top |-> k_prev.high, bottom |-> k_prev.low,
      symbol |-> IF type = "bullish" THEN "OB+" ELSE "OB-" ]

\* lines 1479-1503: what the pair (row i, row i + 1) appends to obs
ObAt(df, i) ==
    LET k_prev == df[i]
        k_next == df[i + 1]
    IN  ( IF /\ k_next.close > k_next.open
             /\ Impulsive(df, i + 1)
             /\ k_prev.close < k_prev.open
          THEN << OrderBlock("bullish", k_prev) >> ELSE << >> )
        \o
        ( IF /\ k_next.close < k_next.open
             /\ Impulsive(df, i + 1)
             /\ k_prev.close > k_prev.open
          THEN << OrderBlock("bearish", k_prev) >> ELSE << >> )

RECURSIVE ObsTo(_, _)
\* line 1479: for i in range(1, len(df) - 2), rows 2..n here
ObsTo(df, n) == IF n < 2 THEN << >> ELSE ObsTo(df, n - 1) \o ObAt(df, n)

\* lines 1506-1507: s[-3:]
LastThree(s) == IF Len(s) <= 3 THEN s ELSE SubSeq(s, Len(s) - 2, Len(s))

\* lines 1443-1511
DetectSmcIndicators(df) ==
    IF Len(df) < 10
    THEN [k |-> "dict", order_blocks |-> << >>, fvg_gaps |-> << >>]
    ELSE [ k |-> "dict",
           order_blocks |-> LastThree(ObsTo(df, Len(df) - 2)),
           fvg_gaps |-> LastThree(FvgsTo(df, Len(df))) ]

----------------------------------------------------------------------------
(* _calculate_volatility_score.  bb_width is in thousandths, funding_rate in
   units of 0.00001 (None is NullNum), whale_ratio in hundredths and
   net_whale_vol in dollars; whale_data is a dict whose keys may be absent,
   the empty dict having neither. *)

\* lines 1613-1616
BandPoints(bb_width) ==
    IF bb_width < 50 THEN 30
    ELSE IF bb_width < 100 THEN 15
    ELSE 0

\* lines 1619-1622: None and 0 are falsy
FundingPoints(funding_rate) ==
    IF funding_rate.k = "num" /\ funding_rate.v # 0 /\ funding_rate.v < -50
    THEN 20
    ELSE IF funding_rate.k = "num" /\ funding_rate.v # 0
            /\ Abs(funding_rate.v) > 50
    THEN 10
    ELSE 0

\* lines 1625-1631
WhalePoints(whale_data) ==
    IF whale_data.k = "empty" THEN 0
    ELSE (IF Get(whale_data.whale_ratio, Num(0)).v > 40 THEN 25 ELSE 0)
         + (IF Abs(Get(whale_data.net_whale_vol, Num(0)).v) > 1000000
            THEN 10 ELSE 0)

\* lines 1634-1635
GapPoints(gaps) == IF gaps # << >> THEN 25 ELSE 0

\* the floor with the band test of line 1640 lost
SizzleNoWideBand(score, bb_width) ==
    IF score < 50
    THEN IF bb_width > 50 /\ bb_width <= 100 THEN Max2(score, 12)
         ELSE IF bb_width > 20 /\ bb_width <= 50 THEN Max2(score, 8)
         ELSE score
    ELSE score

\* lines 1639-1645: the floor of a market that triggers no warning
Sizzle(score, bb_width) ==
    IF score < 50
    THEN IF bb_width > 100 THEN Max2(score, 5)
         ELSE IF bb_width > 50 THEN Max2(score, 12)
         ELSE IF bb_width > 20 THEN Max2(score, 8)
         ELSE score
    ELSE score

\* lines 1598-1647
CalculateVolatilityScore(bb_width, funding_rate, whale_data, gaps) ==
    Num(Min2(100,
             Sizzle(BandPoints(bb_width) + FundingPoints(funding_rate)
                    + WhalePoints(whale_data) + GapPoints(gaps),
                    bb_width)))

----------------------------------------------------------------------------
(* _calculate_pivot_points and _calculate_swing_levels.  The candle prices of
   these series are whole thousandths (multiples of TICK / 1000). *)

\* a / b rounded to the nearest integer, a tie to the even one
RoundDiv(a, b) ==
    LET x == Abs(a)
        q == x \div b
        r == x % b
        n == IF 2 * r > b \/ (2 * r = b /\ q % 2 = 1) THEN q + 1 ELSE q
    IN  IF a < 0 THEN -n ELSE n

\* float(f"{x:.2f}") of the price n / d thousandths: whole hundredths
Round2(n, d) == RoundDiv(n, 10 * d) * (TICK \div 100)

\* the price in thousandths
Mills(x) == x \div (TICK \div 1000)

EmptyDict == [k |-> "empty"]

\* lines 1662-1697: the levels of the candle prev; the classic levels are
\* thirds of thousandths, the Fibonacci levels 3000ths of thousandths
PivotsOf(prev) ==
    LET high == Mills(prev.high)
        low == Mills(prev.low)
        close == Mills(prev.close)
        pp3 == high + low + close
        range_val == high - low
    IN  [ k |-> "dict",
          classic |->
            [ p |-> Round2(pp3, 3),
              r1 |-> Round2(2 * pp3 - 3 * low, 3),
              r2 |-> Round2(pp3 + 3 * range_val, 3),
              r3 |-> Round2(3 * high + 2 * (pp3 - 3 * low), 3),
              s1 |-> Round2(2 * pp3 - 3 * high, 3),
              s2 |-> Round2(pp3 - 3 * range_val, 3),
              s3 |-> Round2(3 * low - 2 * (3 * high - pp3), 3) ],
          fibonacci |->
            [ p |-> Round2(pp3, 3),
              r1 |-> Round2(1000 * pp3 + 1146 * range_val, 3000),
              r2 |-> Round2(1000 * pp3 + 1854 * range_val, 3000),
              r3 |-> Round2(pp3 + 3 * range_val, 3),
              s1 |-> Round2(1000 * pp3 - 1146 * range_val, 3000),
              s2 |-> Round2(1000 * pp3 - 1854 * range_val, 3000),
              s3 |-> Round2(pp3 - 3 * range_val, 3) ] ]

\* lines 1651-1698: df.iloc[-2], the last closed candle
CalculatePivotPoints(df) ==
    IF Len(df) < 2 THEN EmptyDict ELSE PivotsOf(df[Len(df) - 1])

\* line 1717: the first row of df.iloc[-(window + 1):-1]
SwingFirstRow(df, window) == Max2(1, Len(df) - window)

\* lines 1701-1726
CalculateSwingLevels(df, window) ==
    IF Len(df) < window THEN EmptyDict
    ELSE [ k |-> "dict",
           window |-> window,
           recent_high |->
               Round2(Mills(MaxHigh(df, SwingFirstRow(df, window),
                                    Len(df) - 1)), 1),
           recent_low |->
               Round2(Mills(MinLow(df, SwingFirstRow(df, window),
                                   Len(df) - 1)), 1) ]

----------------------------------------------------------------------------
(* The calls of the market-structure functions *)

\* the default of the parameter bins of _calculate_vpvr
DefaultBins == 40

\* largest number of bins besides the default
MaxBins == 5

\* longest series handed to _calculate_vpvr
MaxProfileCandles == 5

\* longest series handed to _detect_smc_indicators
MaxCandles == 13

\* number of candles at the end of such a series that vary
FreeTail == 5

\* largest window handed to _calculate_swing_levels
MaxWindow == 3

\* candles on a price grid: <<low, high, close, volume>>, prices in grid steps
ProfileShapes ==
    { <<0, 1, 1, 2>>, <<1, 2, 1, 1>>, <<2, 4, 3, 1>>, <<1, 1, 1, 3>> }

ProfileCandle(base, step, sh) ==
    Candle(base + sh[1] * step, base + sh[2] * step, base + sh[1] * step,
           base + sh[3] * step, sh[4])

\* series of four candles and more on the grid base + k * step
ProfileSeries(base, step) ==
    { [i \in 1..Len(sh) |-> ProfileCandle(base, step, sh[i])] :
        sh \in UNION { [1..n -> ProfileShapes] :
                         n \in 4..MaxProfileCandles } }

VpvrCalls ==
    { [fn |-> "_calculate_vpvr", df |-> df, bins |-> bins] :
        df \in ProfileSeries(Tk(100), Tk(5)) \cup ProfileSeries(Tk(100), Tk(50)),
        bins \in (2..MaxBins) \cup { DefaultBins } }

\* a small rising candle, a falling candle above it, a rising candle above
\* both, and a large rising candle
SmcCandles ==
    { Candle(Tk(100), Tk(101), Tk(99), Tk(101), 1),
      Candle(Tk(102), Tk(103), Tk(101), Tk(101), 1),
      Candle(Tk(105), Tk(107), Tk(104), Tk(106), 1),
      Candle(Tk(100), Tk(110), Tk(100), Tk(110), 1) }

\* n candles: the falling candle repeated, then FreeTail candles of any kind
SmcSeries ==
    { [i \in 1..n |->
          IF i <= n - FreeTail
          THEN Candle(Tk(102), Tk(103), Tk(101), Tk(101), 1)
          ELSE tail[i - (n - FreeTail)]] :
        tail \in [1..FreeTail -> SmcCandles], n \in 9..MaxCandles }

SmcCalls == { [fn |-> "_detect_smc_indicators", df |-> df] : df \in SmcSeries }

WhaleData ==
    { EmptyDict }
    \cup { [k |-> "dict", whale_ratio |-> r, net_whale_vol |-> n] :
             r \in { AbsentNum, Num(40), Num(41) },
             n \in { AbsentNum, Num(1000000), Num(-1000001) } }

ScoreCalls ==
    { [fn |-> "_calculate_volatility_score", bb_width |-> bb,
       funding_rate |-> fu, whale_data |-> wd, gaps |-> g] :
        bb \in { 0, 20, 21, 49, 50, 51, 99, 100, 101, 200 },
        fu \in { NullNum, Num(0), Num(-51), Num(-50), Num(50), Num(51) },
        wd \in WhaleData,
        g \in { << >>, << "upward_liquidity_gap" >>,
                << "downward_liquidity_gap" >> } }

\* the price of n thousandths
Ml(n) == n * (TICK \div 1000)

LevelCandles ==
    { Candle(Ml(100000), Ml(101004), Ml(99996), Ml(100500), 1),
      Candle(Ml(100500), Ml(102006), Ml(100104), Ml(101500), 1),
      Candle(Ml(101000), Ml(101500), Ml(98994), Ml(99200), 1) }

LevelSeries ==
    UNION { [1..n -> LevelCandles] : n \in 1..(MaxWindow + 2) }

PivotCalls ==
    { [fn |-> "_calculate_pivot_points", df |-> df] : df \in LevelSeries }

SwingCalls ==
    { [fn |-> "_calculate_swing_levels", df |-> df, window |-> w] :
        df \in LevelSeries, w \in 2..MaxWindow }

\* the validator is not running
IdleDraft ==
    Draft(AbsentStr, AbsentZone, AbsentNum, AbsentList, AbsentNum, AbsentList,
          AbsentList, AbsentLevels)

MarketInit ==
    /\ call \in VpvrCalls \cup SmcCalls \cup ScoreCalls \cup PivotCalls
                \cup SwingCalls
    /\ ret = Pending
    /\ ctx = Context(0, 0, 0, 0, << >>)
    /\ input = IdleDraft
    /\ result = IdleDraft
    /\ out1 = IdleDraft
    /\ fr = Frame0
    /\ pc = "idle"
    /\ raised = FALSE
    /\ run = 1
    /\ ServicesIdle

\* the call returns r
Return(r) ==
    /\ ret = Pending
    /\ ret' = r
    /\ UNCHANGED <<ctx, input, result, fr, pc, raised, run, out1, call>>
    /\ UNCHANGED serviceVars

DoCalculateVpvr ==
    /\ call.fn = "_calculate_vpvr"
    /\ Return(CalculateVpvr(call.df, call.bins))

DoDetectSmcIndicators ==
    /\ call.fn = "_detect_smc_indicators"
    /\ Return(DetectSmcIndicators(call.df))

DoCalculateVolatilityScore ==
    /\ call.fn = "_calculate_volatility_score"
    /\ Return(CalculateVolatilityScore(call.bb_width, call.funding_rate,
                                       call.whale_data, call.gaps))

DoCalculatePivotPoints ==
    /\ call.fn = "_calculate_pivot_points"
    /\ Return(CalculatePivotPoints(call.df))

DoCalculateSwingLevels ==
    /\ call.fn = "_calculate_swing_levels"
    /\ Return(CalculateSwingLevels(call.df, call.window))

MarketNext ==
    \/ DoCalculateVpvr
    \/ DoDetectSmcIndicators
    \/ DoCalculateVolatilityScore
    \/ DoCalculatePivotPoints
    \/ DoCalculateSwingLevels

MarketSpec == MarketInit /\ [][MarketNext]_vars

----------------------------------------------------------------------------
(* TTLCache (backend/app/services/cache_service.py).  _cache is an
   OrderedDict: a sequence of entries, oldest position first.  Time is in
   seconds; the hit counters and statistics are left out. *)

\* the validator and the market-structure functions are not running
PipelineIdle ==
    /\ ctx = Context(0, 0, 0, 0, << >>)
    /\ input = IdleDraft
    /\ result = IdleDraft
    /\ out1 = IdleDraft
    /\ fr = Frame0
    /\ pc = "idle"
    /\ raised = FALSE
    /\ run = 1
    /\ call = NoCall
    /\ ret = Pending

\* the default of the parameter ttl_seconds of CachedAnalyzer's analysis cache
DefaultTtl == 300

None == [k |-> "none"]

Some(v) == [k |-> "some", v |-> v]

\* CacheEntry(value, created_at, expires_at) stored under key
CacheEntry(key, value, t, ttl) ==
    [key |-> key, value |-> value, expires_at |-> t + ttl]

\* CacheEntry.is_expired
IsExpired(entry, t) == t > entry.expires_at

\* the keys of the OrderedDict c
KeysOf(c) == { c[i].key : i \in 1..Len(c) }

\* the position of key in c
IndexOf(c, key) == CHOOSE i \in 1..Len(c) : c[i].key = key

\* c.pop(key)
Pop(c, key) ==
    LET i == IndexOf(c, key) IN SubSeq(c, 1, i - 1) \o SubSeq(c, i + 1, Len(c))

\* c.move_to_end(key)
MoveToEnd(c, key) == Append(Pop(c, key), c[IndexOf(c, key)])

\* c[key] = entry: a new key goes to the end, a present key keeps its place
Store(c, entry) ==
    IF entry.key \in KeysOf(c)
    THEN [c EXCEPT ![IndexOf(c, entry.key)] = entry]
    ELSE Append(c, entry)

\* lines 90-112: the cache after get(key) at time t, and what get returns
CacheGet(c, key, t) ==
    IF key \notin KeysOf(c) THEN [cache |-> c, ret |-> None]
    ELSE IF IsExpired(c[IndexOf(c, key)], t)
         THEN [cache |-> Pop(c, key), ret |-> None]
         ELSE [ cache |-> MoveToEnd(c, key),
                ret |-> Some(c[IndexOf(c, key)].value) ]

\* lines 114-130: the cache after set(key, value) at time t; size is maxsize
CacheSet(c, size, key, value, t, ttl) ==
    LET kept == IF Len(c) >= size THEN Tail(c) ELSE c
    IN  Store(kept, CacheEntry(key, value, t, ttl))

\* lines 132-138
CacheDelete(c, key) == IF key \in KeysOf(c) THEN Pop(c, key) ELSE c

\* a sequence of keys without key
Without(keys, key) == SelectSeq(keys, LAMBDA k : k # key)

\* the keys of the sequence keys that are still cached in c, then key as the
\* most recently used one
Touch(keys, c, key) ==
    Append(SelectSeq(keys, LAMBDA k : k \in KeysOf(c) /\ k # key), key)

\* CachedAnalyzer._make_cache_key, lines 200-205: f"{symbol}_{timeframe}"
MakeCacheKey(symbol, timeframe) == <<symbol, "_", timeframe>>

CacheKeys ==
    { MakeCacheKey("BTCUSDT", "4h"), MakeCacheKey("ETHUSDT", "4h"),
      MakeCacheKey("SOLUSDT", "1h") }

\* the cached analysis results
CacheValues == { "bullish", "bearish" }

MaxSize == 2

MaxTicks == 2

CacheInit ==
    /\ PipelineIdle
    /\ StreamIdle
    /\ RestIdle
    /\ cache = << >>
    /\ maxsize \in 1..MaxSize
    /\ now = 0
    /\ recency = << >>
    /\ op = NoOp

\* TTLCache.get(key)
DoGet(key) ==
    LET g == CacheGet(cache, key, now) IN
    /\ cache' = g.cache
    /\ recency' = IF g.ret = None THEN Without(recency, key)
                  ELSE Touch(recency, g.cache, key)
    /\ op' = [name |-> "get", key |-> key, ret |-> g.ret]
    /\ UNCHANGED <<maxsize, now, restVars, streamVars>>

\* TTLCache.set(key, value)
DoSet(key, value) ==
    LET c == CacheSet(cache, maxsize, key, value, now, DefaultTtl) IN
    /\ cache' = c
    /\ recency' = Touch(recency, c, key)
    /\ op' = [name |-> "set", key |-> key, ret |-> None]
    /\ UNCHANGED <<maxsize, now, restVars, streamVars>>

\* TTLCache.delete(key)
DoDelete(key) ==
    /\ cache' = CacheDelete(cache, key)
    /\ recency' = Without(recency, key)
    /\ op' = [ name |-> "delete", key |-> key,
               ret |-> Some(key \in KeysOf(cache)) ]
    /\ UNCHANGED <<maxsize, now, restVars, streamVars>>

\* time passes: one time-to-live
Tick ==
    /\ now < MaxTicks * DefaultTtl
    /\ now' = now + DefaultTtl
    /\ op' = [name |-> "tick"]
    /\ UNCHANGED <<cache, maxsize, recency, restVars, streamVars>>

CacheNext ==
    \/ \E key \in CacheKeys : DoGet(key)
    \/ \E key \in CacheKeys, value \in CacheValues : DoSet(key, value)
    \/ \E key \in CacheKeys : DoDelete(key)
    \/ Tick

CacheSpec == CacheInit /\ [][CacheNext]_vars

----------------------------------------------------------------------------
(* The streamed analysis (DeepSeekAnalyst.analyze_market_stream) and the
   cached endpoint (api/routes/analysis.py, predict), both on the analysis
   cache of the global CachedAnalyzer *)

\* the default of the parameter maxsize of CachedAnalyzer
DefaultMaxsize == 100

\* CachedAnalyzer.cache_analysis(symbol, timeframe, result, ttl_seconds=None)
\* called with the positional arguments args: fewer than three raise
\* TypeError before the body runs
CacheAnalysis(c, size, args, t) ==
    IF Len(args) < 3 THEN [raised |-> TRUE, cache |-> c]
    ELSE [ raised |-> FALSE,
           cache |-> CacheSet(c, size, MakeCacheKey(args[1], args[2]),
                              args[3], t, DefaultTtl) ]

Symbols == { "BTCUSDT", "ETHUSDT" }

Timeframes == { "4h", "1h" }

MaxChunks == 2

MaxCalls == 3

StreamInit ==
    /\ PipelineIdle
    /\ RestIdle
    /\ cache = << >>
    /\ maxsize = DefaultMaxsize
    /\ now = 0
    /\ recency = << >>
    /\ stream = NoStream
    /\ calls = 0
    /\ op = NoOp

\* lines 1568-1577: the request is sent; the response will be the text of
\* result when valid, and text that does not parse otherwise
OpenStream(symbol, timeframe, answer, valid) ==
    /\ stream.pc = "idle"
    /\ calls < MaxCalls
    /\ calls' = calls + 1
    /\ stream' = [ pc |-> "open", symbol |-> symbol, timeframe |-> timeframe,
                   result |-> answer, valid |-> valid, full_content |-> << >>,
                   cached |-> FALSE ]
    /\ op' = [name |-> "analyze_market_stream"]
    /\ UNCHANGED <<cacheVars, restVars>>

\* lines 1582-1587: one chunk with content is yielded and kept
StreamChunk ==
    /\ stream.pc = "open"
    /\ Len(stream.full_content) < MaxChunks
    /\ stream' = [stream EXCEPT !.full_content = Append(@, "chunk")]
    /\ op' = [name |-> "chunk"]
    /\ UNCHANGED <<cacheVars, calls, restVars>>

\* lines 1589-1612: the stream is exhausted; a parsed result is handed to
\* cache_analysis(symbol, result), and "except Exception" logs a failure
EndStream ==
    /\ stream.pc = "open"
    /\ LET parsed == stream.full_content # << >> /\ stream.valid
           saved == CacheAnalysis(cache, maxsize,
                                  <<stream.symbol, stream.result>>, now)
       IN  /\ cache' = IF parsed THEN saved.cache ELSE cache
           /\ recency' = [i \in 1..Len(cache') |-> cache'[i].key]
           /\ stream' = [stream EXCEPT !.pc = "closed",
                                       !.cached = parsed /\ ~saved.raised]
    /\ op' = [name |-> "end_of_stream"]
    /\ UNCHANGED <<maxsize, now, calls, restVars>>

\* the client starts over
CloseStream ==
    /\ stream.pc = "closed"
    /\ stream' = NoStream
    /\ op' = [name |-> "close"]
    /\ UNCHANGED <<cacheVars, calls, restVars>>

\* analysis.py lines 93-181 with use_cache = True: a hit returns the cached
\* result, a miss calls the model and caches what it returned
Predict(symbol, timeframe, answer) ==
    LET key == MakeCacheKey(symbol, timeframe)
        g == CacheGet(cache, key, now)
        saved == CacheAnalysis(g.cache, maxsize,
                               <<symbol, timeframe, answer>>, now)
    IN  IF g.ret # None
        THEN /\ cache' = g.cache
             /\ recency' = Touch(recency, g.cache, key)
             /\ op' = [name |-> "predict", key |-> key, hit |-> TRUE,
                       ret |-> g.ret]
             /\ UNCHANGED <<maxsize, now, stream, calls, restVars>>
        ELSE /\ calls < MaxCalls
             /\ calls' = calls + 1
             /\ cache' = saved.cache
             /\ recency' = Touch(recency, saved.cache, key)
             /\ op' = [name |-> "predict", key |-> key, hit |-> FALSE,
                       ret |-> Some(answer)]
             /\ UNCHANGED <<maxsize, now, stream, restVars>>

\* time passes: one time-to-live
StreamTick ==
    /\ now < MaxTicks * DefaultTtl
    /\ now' = now + DefaultTtl
    /\ op' = [name |-> "tick"]
    /\ UNCHANGED <<cache, maxsize, recency, streamVars, restVars>>

StreamNext ==
    \/ \E symbol \in Symbols, timeframe \in Timeframes,
          answer \in CacheValues, valid \in BOOLEAN :
              OpenStream(symbol, timeframe, answer, valid)
    \/ StreamChunk
    \/ EndStream
    \/ CloseStream
    \/ \E symbol \in Symbols, timeframe \in Timeframes,
          answer \in CacheValues : Predict(symbol, timeframe, answer)
    \/ StreamTick

StreamSpec == StreamInit /\ [][StreamNext]_vars

----------------------------------------------------------------------------
(* DeepSeekAnalyst.analyze_market: the retry decorator (tenacity) around
   the loop that falls back from the reasoner model to deepseek-chat *)

\* what analyze_market leaves alone
exceptAnalysis ==
    <<pipelineVars, cacheVars, streamVars, op, manager, batch, monitor>>

\* stop_after_attempt(3)
StopAfterAttempt == 3

\* for attempt in range(2)
InnerAttempts == 2

\* the models a caller can configure or name in user_preferences
Models == { "deepseek-reasoner", "deepseek-chat", "my-reasoner-v2" }

\* "reasoner" in active_model
IsReasoner(model) == model \in { "deepseek-reasoner", "my-reasoner-v2" }

\* what one API call can come to: a response that parses ("ok"), or the
\* exception raised in steps C, D or E
Outcomes ==
    { "ok", "EmptyResponseError", "ValueError", "APITimeoutError",
      "APIConnectionError", "APIError" }

\* the except clause of the inner loop
Caught(exc) ==
    exc \in { "EmptyResponseError", "ValueError", "APITimeoutError",
              "APIConnectionError", "APIError" }

\* retry_if_exception_type of the decorator
RetryIfAny(exc) ==
    exc \in { "APITimeoutError", "APIConnectionError", "EmptyResponseError",
              "APIError", "ValueError" }

RetryIf(exc) ==
    exc \in { "APITimeoutError", "APIConnectionError", "EmptyResponseError",
              "APIError" }

\* one call of analyze_market begins its first outer attempt
Begin(model) ==
    [ pc |-> "call", model |-> model, active_model |-> model,
      outer |-> 1, attempt |-> 0, exc |-> "none", log |-> << >> ]

AnalyzeInit ==
    /\ PipelineIdle
    /\ CacheIdle
    /\ StreamIdle
    /\ op = NoOp
    /\ manager = Unused
    /\ batch = Unused
    /\ monitor = Unused
    /\ \E model \in Models : analysis = Begin(model)

\* steps A-F of one pass of the inner loop and its except clause: the API
\* is called with active_model; a failure on the first pass of a reasoner
\* model continues with deepseek-chat, any other failure is raised
Attempt(outcome) ==
    /\ analysis.pc = "call"
    /\ analysis.attempt < InnerAttempts
    /\ LET made == [ outer |-> analysis.outer, attempt |-> analysis.attempt,
                     model |-> analysis.active_model, outcome |-> outcome ]
           logged == [analysis EXCEPT !.log = Append(@, made)]
       IN  analysis' =
             IF outcome = "ok" THEN [logged EXCEPT !.pc = "returned"]
             ELSE IF /\ Caught(outcome)
                     /\ IsReasoner(analysis.active_model)
                     /\ analysis.attempt = 0
                  THEN [logged EXCEPT !.active_model = "deepseek-chat",
                                      !.attempt = 1]
                  ELSE [logged EXCEPT !.pc = "raised", !.exc = outcome]
    /\ UNCHANGED exceptAnalysis

\* the decorator sees the exception: it calls the function again, or gives
\* up (RetryError after the last attempt, the exception itself otherwise)
Retry ==
    /\ analysis.pc = "raised"
    /\ analysis' =
         IF RetryIf(analysis.exc) /\ analysis.outer < StopAfterAttempt
         THEN [analysis EXCEPT !.pc = "call", !.outer = @ + 1,
                               !.attempt = 0, !.exc = "none",
                               !.active_model = analysis.model]
         ELSE [analysis EXCEPT !.pc = "failed"]
    /\ UNCHANGED exceptAnalysis

\* the next call of analyze_market
AnalyzeAgain(model) ==
    /\ analysis.pc \in { "returned", "failed" }
    /\ analysis' = Begin(model)
    /\ UNCHANGED exceptAnalysis

AnalyzeNext ==
    \/ \E outcome \in Outcomes : Attempt(outcome)
    \/ Retry
    \/ \E model \in Models : AnalyzeAgain(model)

AnalyzeSpec == AnalyzeInit /\ [][AnalyzeNext]_vars

----------------------------------------------------------------------------
(* MarketDataManager (services/market_data_manager.py): one production
   task per watched symbol, started and cancelled under the manager's lock *)

\* what the manager leaves alone
exceptManager ==
    <<pipelineVars, cacheVars, streamVars, analysis, batch, monitor>>

WatchedSymbols == { "BTCUSDT", "ETHUSDT" }

\* connection ids (uuid4 strings in websocket.py)
Connections == { "c1", "c2" }

\* the tasks created in one behaviour
MaxTasks == 3

\* no entry under a key of _tasks or _shared_state
Absent == 0

\* __init__, lines 27-35; pool holds every task asyncio was given
ManagerInit ==
    /\ PipelineIdle
    /\ CacheIdle
    /\ StreamIdle
    /\ op = NoOp
    /\ analysis = Unused
    /\ batch = Unused
    /\ monitor = Unused
    /\ manager = [ subscribers |-> [s \in WatchedSymbols |-> {}],
                   tasks |-> [s \in WatchedSymbols |-> Absent],
                   shared_state |-> [s \in WatchedSymbols |-> Absent],
                   pool |-> << >> ]

\* asyncio.create_task(self._production_loop(symbol)): scheduled, not begun
NewTask(symbol) == [symbol |-> symbol, pc |-> "created", must_cancel |-> FALSE]

\* Task.done()
Done(m, id) == m.pool[id].pc = "done"

\* line 47, always a new task
StartsTaskAlways(m, symbol) == TRUE

\* line 47: symbol not in self._tasks or self._tasks[symbol].done()
StartsTask(m, symbol) ==
    m.tasks[symbol] = Absent \/ Done(m, m.tasks[symbol])

\* subscribe, lines 37-49 (the body holds the lock and never awaits)
Subscribe(symbol, connection_id) ==
    LET joined == [manager EXCEPT
                      !.subscribers[symbol] = @ \cup { connection_id }]
    IN  /\ IF StartsTask(joined, symbol)
           THEN /\ Len(manager.pool) < MaxTasks
                /\ manager' =
                     [joined EXCEPT
                        !.pool = Append(@, NewTask(symbol)),
                        !.tasks[symbol] = Len(manager.pool) + 1]
           ELSE manager' = joined
        /\ op' = [name |-> "subscribe", symbol |-> symbol]
        /\ UNCHANGED exceptManager

\* Task.cancel(): CancelledError is thrown into the task when it next runs
Cancel(m, id) ==
    IF Done(m, id) THEN m ELSE [m EXCEPT !.pool[id].must_cancel = TRUE]

\* unsubscribe, lines 51-65
Unsubscribe(symbol, connection_id) ==
    LET left == [manager EXCEPT
                    !.subscribers[symbol] = @ \ { connection_id }]
        stopped == IF left.tasks[symbol] # Absent
                   THEN [Cancel(left, left.tasks[symbol]) EXCEPT
                            !.tasks[symbol] = Absent]
                   ELSE left
    IN  /\ manager' =
             IF connection_id \notin manager.subscribers[symbol] THEN manager
             ELSE IF left.subscribers[symbol] # {} THEN left
             ELSE [stopped EXCEPT !.shared_state[symbol] = Absent]
        /\ op' = [name |-> "unsubscribe", symbol |-> symbol]
        /\ UNCHANGED exceptManager

\* get_latest, line 69 (None when there is no snapshot)
GetLatest(m, symbol) ==
    IF m.shared_state[symbol] = Absent THEN None
    ELSE Some(m.shared_state[symbol])

\* _production_loop, lines 71-99, from one await to the next: the event
\* loop runs task id, whose pending await (get_war_room_dashboard or
\* sleep) has come to outcome; a cancelled task is resumed with
\* CancelledError, which "except Exception" (line 90) does not catch
TaskStep(id, outcome) ==
    LET task == manager.pool[id]
    IN  /\ id \in 1..Len(manager.pool)
        /\ task.pc # "done"
        /\ IF task.must_cancel
           THEN /\ manager' = [manager EXCEPT !.pool[id].pc = "done"]
                /\ op' = [name |-> "cancelled", task |-> id]
           ELSE IF task.pc = "fetch" /\ outcome = "data"
           THEN /\ manager' = [manager EXCEPT
                                  !.shared_state[task.symbol] = id,
                                  !.pool[id].pc = "sleep"]
                /\ op' = [name |-> "write", task |-> id]
           ELSE /\ manager' = [manager EXCEPT !.pool[id].pc =
                                  IF task.pc = "fetch" THEN "sleep"
                                  ELSE "fetch"]
                /\ op' = [name |-> "run", task |-> id]
        /\ UNCHANGED exceptManager

ManagerNext ==
    \/ \E symbol \in WatchedSymbols, connection_id \in Connections :
          Subscribe(symbol, connection_id)
    \/ \E symbol \in WatchedSymbols, connection_id \in Connections :
          Unsubscribe(symbol, connection_id)
    \/ \E id \in 1..MaxTasks, outcome \in { "data", "none", "error" } :
          TaskStep(id, outcome)

ManagerSpec == ManagerInit /\ [][ManagerNext]_vars

----------------------------------------------------------------------------
(* BatchAnalyzer.batch_analyze (services/batch_analyzer.py): one task per
   input symbol behind a semaphore, gathered with return_exceptions=True *)

\* what the batch analyzer leaves alone
exceptBatch ==
    <<pipelineVars, cacheVars, streamVars, op, analysis, manager, monitor>>

BatchSymbols == { "BTCUSDT", "ETHUSDT" }

\* the longest list of input symbols
MaxBatch == 3

\* the largest max_concurrency
MaxConcurrency == 2

\* the lists of input symbols (a symbol may be listed twice)
SymbolLists ==
    UNION { [1..n -> BatchSymbols] : n \in 0..MaxBatch }

\* lines 339-342: the coroutine of input symbol i, not yet begun
BatchTask(symbol) ==
    [symbol |-> symbol, pc |-> "waiting", runs |-> 0, returned |-> "pending"]

\* lines 330-345: the semaphore is created and the tasks are gathered
BatchInit ==
    /\ PipelineIdle
    /\ CacheIdle
    /\ StreamIdle
    /\ op = NoOp
    /\ analysis = Unused
    /\ manager = Unused
    /\ monitor = Unused
    /\ \E symbols \in SymbolLists, max_concurrency \in 1..MaxConcurrency,
          progress_callback \in BOOLEAN :
          batch = [ symbols |-> symbols,
                    max_concurrency |-> max_concurrency,
                    progress_callback |-> progress_callback,
                    semaphore |-> max_concurrency,
                    tasks |-> [i \in 1..Len(symbols) |->
                                  BatchTask(symbols[i])],
                    response |-> None ]

\* asyncio.Semaphore.acquire does not wait, free or not
FreeAlways(b) == TRUE

\* asyncio.Semaphore.acquire does not wait
Free(b) == b.semaphore > 0

\* _analyze_with_semaphore, lines 305-311, up to the await: task i takes
\* the semaphore, reports progress and enters analyze_symbol; an
\* exception of the callback leaves the "async with" and ends the task
Enter(i, callback_raises) ==
    /\ i \in 1..Len(batch.tasks)
    /\ batch.tasks[i].pc = "waiting"
    /\ Free(batch)
    /\ callback_raises => batch.progress_callback
    /\ batch' =
         IF callback_raises
         THEN [batch EXCEPT !.tasks[i].pc = "done",
                            !.tasks[i].returned = "exception"]
         ELSE [batch EXCEPT !.semaphore = @ - 1,
                            !.tasks[i].pc = "running",
                            !.tasks[i].runs = @ + 1]
    /\ UNCHANGED exceptBatch

\* analyze_symbol, lines 106-293, returns a result of the given status
\* (every exception inside it is turned into FAILED) and the semaphore
\* is released
Leave(i, status) ==
    /\ i \in 1..Len(batch.tasks)
    /\ batch.tasks[i].pc = "running"
    /\ batch' = [batch EXCEPT !.semaphore = @ + 1,
                              !.tasks[i].pc = "done",
                              !.tasks[i].returned = status]
    /\ UNCHANGED exceptBatch

\* lines 353-370: the result appended for task t
ResultOf(t) ==
    [ symbol |-> t.symbol,
      status |-> IF t.returned = "exception" THEN "failed" ELSE t.returned ]

\* the number of results of the given status
CountOf(results, status) ==
    Cardinality({ i \in 1..Len(results) : results[i].status = status })

\* lines 345-386: gather returns once every task is done
Respond ==
    /\ batch.response = None
    /\ \A i \in 1..Len(batch.tasks) : batch.tasks[i].pc = "done"
    /\ LET results == [i \in 1..Len(batch.tasks) |->
                          ResultOf(batch.tasks[i])]
       IN  batch' = [batch EXCEPT !.response =
                       Some([ total |-> Len(batch.symbols),
                              success |-> CountOf(results, "success"),
                              failed |-> CountOf(results, "failed"),
                              cached |-> CountOf(results, "cached"),
                              results |-> results ])]
    /\ UNCHANGED exceptBatch

BatchNext ==
    \/ \E i \in 1..MaxBatch, callback_raises \in BOOLEAN :
          Enter(i, callback_raises)
    \/ \E i \in 1..MaxBatch, status \in { "success", "failed", "cached" } :
          Leave(i, status)
    \/ Respond

BatchSpec == BatchInit /\ [][BatchNext]_vars

----------------------------------------------------------------------------
(* VolatilityMonitor (services/volatility_monitor.py) for one symbol, fed
   as main.py feeds it: add_tick, then check_volatility *)

\* what the monitor leaves alone
exceptMonitor ==
    <<pipelineVars, cacheVars, streamVars, analysis, manager, batch>>

\* __init__: window_seconds, the maxlen of a history and COOLDOWN_SECONDS
WindowSeconds == 300

HistoryMaxlen == 1000

CooldownSeconds == 60

\* (timestamp, price, volume)
MkTick(ts, price, volume) == [ts |-> ts, price |-> price, volume |-> volume]

\* a quiet market: n ticks, 5 seconds apart, ending at time t
Quiet(n, t) == [i \in 1..n |-> MkTick(t - 5 * (n - i), 1000, 1)]

\* the ticks fed in one behaviour
MaxFed == 5

\* the time of the first tick fed
StartTime == 2000

\* (price, volume delta) of a tick: a move of about 1 per cent up or
\* down, no move, or no move on ten times the volume
Feeds == { <<1010, 1>>, <<990, 1>>, <<1000, 1>>, <<1000, 10>> }

\* the seconds between two ticks
Gaps == { 5, 65 }

MonitorInit ==
    /\ PipelineIdle
    /\ CacheIdle
    /\ StreamIdle
    /\ op = NoOp
    /\ analysis = Unused
    /\ manager = Unused
    /\ batch = Unused
    /\ monitor = [ history |-> Quiet(11, StartTime - 5),
                   alert_state |-> [ts |-> 0, type |-> ""],
                   checked |-> TRUE,
                   fed |-> 0,
                   alerts |-> << >> ]

\* _prune_history, lines 53-56
RECURSIVE PruneHistory(_, _)
PruneHistory(q, current_time) ==
    IF q # << >> /\ current_time - q[1].ts > WindowSeconds
    THEN PruneHistory(Tail(q), current_time)
    ELSE q

\* deque(maxlen=1000).append
DequeAppend(q, tick) ==
    IF Len(q) >= HistoryMaxlen THEN Append(Tail(q), tick)
    ELSE Append(q, tick)

\* add_tick, lines 38-51
AddTick(price, volume, gap) ==
    /\ monitor.checked
    /\ monitor.fed < MaxFed
    /\ LET timestamp == monitor.history[Len(monitor.history)].ts + gap
       IN  monitor' =
             [monitor EXCEPT
                !.history = PruneHistory(
                    DequeAppend(@, MkTick(timestamp, price, volume)),
                    timestamp),
                !.checked = FALSE,
                !.fed = @ + 1]
    /\ op' = [name |-> "add_tick"]
    /\ UNCHANGED exceptMonitor

\* lines 70-75, the thresholds in thousandths
CheckPoints ==
    << [seconds_ago |-> 30, tf_label |-> "30s", threshold |-> 5],
       [seconds_ago |-> 60, tf_label |-> "1m", threshold |-> 10],
       [seconds_ago |-> 180, tf_label |-> "3m", threshold |-> 20],
       [seconds_ago |-> 300, tf_label |-> "5m", threshold |-> 30] >>

\* lines 82-86: the first tick at or after target_time
RefTick(q, target_time) ==
    q[CHOOSE i \in 1..Len(q) :
        /\ q[i].ts >= target_time
        /\ \A j \in 1..(i - 1) : q[j].ts < target_time]

\* lines 107-108, every alert a reversal
IsReversalAlways(last_alert_type, direction) == TRUE

\* lines 107-108
IsReversal(last_alert_type, direction) ==
    \/ last_alert_type = "pump" /\ direction = "dump"
    \/ last_alert_type = "dump" /\ direction = "pump"

\* lines 98-101
Severity(move, ref_price, threshold) ==
    IF 1000 * move >= 2 * threshold * ref_price THEN "high"
    ELSE IF 2000 * move >= 3 * threshold * ref_price THEN "medium"
    ELSE "low"

\* lines 78-117: the price alert of check points k.., or None
RECURSIVE PriceAlert(_, _, _)
PriceAlert(q, last, k) ==
    IF k > Len(CheckPoints) THEN None
    ELSE
      LET cp == CheckPoints[k]
          current == q[Len(q)]
          ref_tick == RefTick(q, current.ts - cp.seconds_ago)
          change == current.price - ref_tick.price
          move == IF change < 0 THEN 0 - change ELSE change
          direction == IF change > 0 THEN "pump" ELSE "dump"
      IN  IF 2 * (current.ts - ref_tick.ts) < cp.seconds_ago
          THEN PriceAlert(q, last, k + 1)
          ELSE IF 1000 * move < cp.threshold * ref_tick.price
          THEN PriceAlert(q, last, k + 1)
          ELSE IF /\ ~IsReversal(last.type, direction)
                  /\ current.ts - last.ts < CooldownSeconds
          THEN PriceAlert(q, last, k + 1)
          ELSE Some([ type |-> direction,
                      severity |-> Severity(move, ref_tick.price,
                                            cp.threshold),
                      timeframe |-> cp.tf_label,
                      timestamp |-> current.ts ])

\* the sum of the volumes of the first n ticks
RECURSIVE VolumeSum(_, _)
VolumeSum(q, n) == IF n = 0 THEN 0 ELSE q[n].volume + VolumeSum(q, n - 1)

\* lines 123-139: the volume alert, or None
VolumeAlert(q, last) ==
    LET current == q[Len(q)]
        n == Len(q) - 1
        total == VolumeSum(q, n)
    IN  IF /\ current.volume > 0
           /\ n > 10
           /\ total > 0
           /\ current.volume * n > total * 5
           /\ current.ts - last.ts > CooldownSeconds
        THEN Some([ type |-> "volume_spike", severity |-> "low",
                    timeframe |-> "1s", timestamp |-> current.ts ])
        ELSE None

\* check_volatility, lines 58-141: the alert returned, or None
Check(q, last) ==
    IF Len(q) < 5 THEN None
    ELSE LET alert == PriceAlert(q, last, 1)
         IN  IF alert # None THEN alert ELSE VolumeAlert(q, last)

CheckVolatility ==
    /\ ~monitor.checked
    /\ LET alert == Check(monitor.history, monitor.alert_state)
       IN  /\ monitor' =
                IF alert = None THEN [monitor EXCEPT !.checked = TRUE]
                ELSE [monitor EXCEPT
                        !.checked = TRUE,
                        !.alert_state = [ts |-> alert.v.timestamp,
                                         type |-> alert.v.type],
                        !.alerts = Append(@, alert.v)]
           /\ op' = [name |-> "check_volatility", ret |-> alert]
    /\ UNCHANGED exceptMonitor

MonitorNext ==
    \/ \E feed \in Feeds, gap \in Gaps : AddTick(feed[1], feed[2], gap)
    \/ CheckVolatility

MonitorSpec == MonitorInit /\ [][MonitorNext]_vars

----------------------------------------------------------------------------
(* TechnicalAnalyzer (services/analyzer.py) and calculate_indicators
   (services/data_aggregator.py).  Numbers are exact fractions n/d with
   d > 0; a value with a square root is a + b * sqrt(c). *)

Rat(n, d) ==
    LET g == Gcd(IF n < 0 THEN 0 - n ELSE n, d)
    IN  [n |-> n \div g, d |-> d \div g]

Whole(k) == [n |-> k, d |-> 1]

RAdd(x, y) == Rat(x.n * y.d + y.n * x.d, x.d * y.d)

RSub(x, y) == Rat(x.n * y.d - y.n * x.d, x.d * y.d)

RMul(x, y) == Rat(x.n * y.n, x.d * y.d)

\* x / y for y > 0
RDiv(x, y) == Rat(x.n * y.d, x.d * y.n)

RLess(x, y) == x.n * y.d < y.n * x.d

RAbs(x) == [n |-> IF x.n < 0 THEN 0 - x.n ELSE x.n, d |-> x.d]

RMax(x, y) == IF RLess(x, y) THEN y ELSE x

\* a + b * sqrt(c), c >= 0
Surd(a, b, c) == [a |-> a, b |-> b, c |-> c]

Plain(a) == Surd(a, Whole(0), Whole(0))

\* the sign of p + q * sqrt(c) is not negative
NonNegative(p, q, c) ==
    LET root_part == IF c.n = 0 THEN Whole(0) ELSE q
    IN  IF p.n >= 0 /\ root_part.n >= 0 THEN TRUE
        ELSE IF p.n < 0 /\ root_part.n <= 0 THEN FALSE
        ELSE IF p.n >= 0
             THEN ~RLess(RMul(p, p), RMul(RMul(q, q), c))
             ELSE ~RLess(RMul(RMul(q, q), c), RMul(p, p))

\* x >= y for two values over the same root (or one of them plain)
SurdGeq(x, y) ==
    NonNegative(RSub(x.a, y.a), RSub(x.b, y.b),
                IF x.c.n # 0 THEN x.c ELSE y.c)

\* sum(prices[lo-1:hi]) of a list of fractions
RECURSIVE RSum(_, _, _)
RSum(prices, lo, hi) ==
    IF hi < lo THEN Whole(0)
    ELSE RAdd(RSum(prices, lo, hi - 1), prices[hi])

\* prices[0] if prices else 0
FirstOrZero(prices) == IF prices = << >> THEN Whole(0) ELSE prices[1]

\* prices[-1] if prices else 0
LastOrZero(prices) ==
    IF prices = << >> THEN Whole(0) ELSE prices[Len(prices)]

\* calculate_sma, lines 64-69
CalculateSma(prices, period) ==
    IF Len(prices) < period THEN LastOrZero(prices)
    ELSE RDiv(RSum(prices, Len(prices) - period + 1, Len(prices)),
              Whole(period))

\* lines 80-81: the loop over prices[period:], up to position i
RECURSIVE EmaTo(_, _, _)
EmaTo(prices, period, i) ==
    IF i = period THEN RDiv(RSum(prices, 1, period), Whole(period))
    ELSE LET ema == EmaTo(prices, period, i - 1)
         IN  RAdd(RMul(RSub(prices[i], ema), Rat(2, period + 1)), ema)

\* calculate_ema, lines 71-84
CalculateEma(prices, period) ==
    IF Len(prices) < period THEN LastOrZero(prices)
    ELSE EmaTo(prices, period, Len(prices))

\* lines 95-102: gains and losses of the changes
Gains(prices) ==
    [i \in 1..(Len(prices) - 1) |->
        LET change == RSub(prices[i + 1], prices[i])
        IN  IF change.n > 0 THEN change ELSE Whole(0)]

Losses(prices) ==
    [i \in 1..(Len(prices) - 1) |->
        LET change == RSub(prices[i + 1], prices[i])
        IN  IF change.n > 0 THEN Whole(0) ELSE RAbs(change)]

\* calculate_rsi, lines 86-114
CalculateRsi(prices, period) ==
    IF Len(prices) < period + 1 THEN Whole(50)
    ELSE
      LET gains == Gains(prices)
          losses == Losses(prices)
          n == Len(gains)
          avg_gain == RDiv(RSum(gains, n - period + 1, n), Whole(period))
          avg_loss == RDiv(RSum(losses, n - period + 1, n), Whole(period))
      IN  IF n < period THEN Whole(50)
          ELSE IF avg_loss.n = 0 THEN Whole(100)
          ELSE RSub(Whole(100),
                    RDiv(Whole(100),
                         RAdd(Whole(1), RDiv(avg_gain, avg_loss))))

\* calculate_macd, lines 116-143
CalculateMacd(prices, fast, slow, signal) ==
    IF Len(prices) < slow THEN <<Whole(0), Whole(0), Whole(0)>>
    ELSE
      LET macd_line == RSub(CalculateEma(prices, fast),
                            CalculateEma(prices, slow))
          macd_values ==
              [k \in 1..(Len(prices) - slow + 1) |->
                  LET head == SubSeq(prices, 1, slow + k - 1)
                  IN  RSub(CalculateEma(head, fast),
                           CalculateEma(head, slow))]
          signal_line == IF Len(macd_values) < signal THEN macd_line
                         ELSE CalculateEma(macd_values, signal)
      IN  <<macd_line, signal_line, RSub(macd_line, signal_line)>>

\* line 158: sum((p - sma) ** 2 for p in prices[-period:]) / period
Variance(prices, period, sma) ==
    LET n == Len(prices)
        squares == [i \in 1..period |->
                       LET dev == RSub(prices[n - period + i], sma)
                       IN  RMul(dev, dev)]
    IN  RDiv(RSum(squares, 1, period), Whole(period))

\* calculate_bollinger_bands, lines 145-166: (upper, middle, lower)
CalculateBollingerBands(prices, period, std_dev) ==
    IF Len(prices) < period
    THEN LET price == LastOrZero(prices)
         IN  << Plain(RMul(price, Rat(102, 100))), Plain(price),
                Plain(RMul(price, Rat(98, 100))) >>
    ELSE LET sma == CalculateSma(prices, period)
             variance == Variance(prices, period, sma)
         IN  << Surd(sma, Whole(std_dev), variance), Plain(sma),
                Surd(sma, Whole(0 - std_dev), variance) >>

\* a candle of Kline: its high, low and close
MkKline(high, low, close) ==
    [high |-> Whole(high), low |-> Whole(low), close |-> Whole(close)]

\* lines 174-185
TrueRanges(klines) ==
    [i \in 1..(Len(klines) - 1) |->
        LET k == klines[i + 1]
            prev_close == klines[i].close
        IN  RMax(RMax(RSub(k.high, k.low),
                      RAbs(RSub(k.high, prev_close))),
                 RAbs(RSub(k.low, prev_close)))]

\* calculate_atr, lines 168-192
CalculateAtr(klines, period) ==
    IF Len(klines) < 2 THEN Whole(0)
    ELSE LET true_ranges == TrueRanges(klines)
             n == Len(true_ranges)
         IN  IF n < period THEN RDiv(RSum(true_ranges, 1, n), Whole(n))
             ELSE RDiv(RSum(true_ranges, n - period + 1, n), Whole(period))

\* TechnicalIndicators(), models/indicators.py lines 5-40
DefaultIndicators ==
    [ sma_20 |-> Whole(0), sma_50 |-> Whole(0), ema_12 |-> Whole(0),
      ema_26 |-> Whole(0), rsi_14 |-> Whole(50), macd_line |-> Whole(0),
      macd_signal |-> Whole(0), macd_histogram |-> Whole(0),
      bb_upper |-> Plain(Whole(0)), bb_middle |-> Plain(Whole(0)),
      bb_lower |-> Plain(Whole(0)), bb_width |-> Plain(Whole(0)),
      atr_14 |-> Whole(0), trend_status |-> "neutral",
      ma_cross_status |-> "none", volatility_level |-> "zhongdeng" ]

\* lines 222-228
TrendStatus(current_price, sma_20, sma_50) ==
    IF RLess(sma_20, current_price) /\ RLess(sma_50, sma_20) THEN "bullish"
    ELSE IF RLess(current_price, sma_20) /\ RLess(sma_20, sma_50)
         THEN "bearish"
         ELSE "neutral"

\* lines 230-246 (jincha: golden cross formed, sicha: death cross formed,
\* duotou / kongtou: bullish / bearish alignment, chanrao: entangled)
MaCross(closes, sma_20, sma_50) ==
    IF Len(closes) < 2 THEN "shuju buzu"
    ELSE LET before == SubSeq(closes, 1, Len(closes) - 1)
             prev_sma_20 == CalculateSma(before, 20)
             prev_sma_50 == CalculateSma(before, 50)
         IN  IF RLess(prev_sma_20, prev_sma_50) /\ RLess(sma_50, sma_20)
             THEN "jincha"
             ELSE IF RLess(prev_sma_50, prev_sma_20) /\ RLess(sma_20, sma_50)
             THEN "sicha"
             ELSE IF RLess(sma_50, sma_20) THEN "duotou"
             ELSE IF RLess(sma_20, sma_50) THEN "kongtou"
             ELSE "chanrao"

\* lines 248-257 (jigao: extreme, gao: high, zhongdeng: medium, di: low)
VolatilityLevel(atr, current_price) ==
    LET atr_percent == IF current_price.n > 0
                       THEN RMul(RDiv(atr, current_price), Whole(100))
                       ELSE Whole(0)
    IN  IF RLess(Whole(3), atr_percent) THEN "jigao"
        ELSE IF RLess(Whole(2), atr_percent) THEN "gao"
        ELSE IF RLess(Whole(1), atr_percent) THEN "zhongdeng"
        ELSE "di"

\* line 217: (bb_upper - bb_lower) / bb_middle if bb_middle > 0 else 0
BbWidth(bands) ==
    LET middle == bands[2].a
    IN  IF middle.n > 0
        THEN Surd(RDiv(RSub(bands[1].a, bands[3].a), middle),
                  RDiv(RSub(bands[1].b, bands[3].b), middle),
                  bands[1].c)
        ELSE Plain(Whole(0))

\* TechnicalAnalyzer.analyze, lines 194-277
Analyze(klines) ==
    IF klines = << >> THEN DefaultIndicators
    ELSE
      LET closes == [i \in 1..Len(klines) |-> klines[i].close]
          current_price == closes[Len(closes)]
          sma_20 == CalculateSma(closes, 20)
          sma_50 == CalculateSma(closes, 50)
          macd == CalculateMacd(closes, 12, 26, 9)
          bands == CalculateBollingerBands(closes, 20, 2)
          atr == CalculateAtr(klines, 14)
      IN  [ sma_20 |-> sma_20, sma_50 |-> sma_50,
            ema_12 |-> CalculateEma(closes, 12),
            ema_26 |-> CalculateEma(closes, 26),
            rsi_14 |-> CalculateRsi(closes, 14),
            macd_line |-> macd[1], macd_signal |-> macd[2],
            macd_histogram |-> macd[3],
            bb_upper |-> bands[1], bb_middle |-> bands[2],
            bb_lower |-> bands[3], bb_width |-> BbWidth(bands),
            atr_14 |-> atr,
            trend_status |-> TrendStatus(current_price, sma_20, sma_50),
            ma_cross_status |-> MaCross(closes, sma_20, sma_50),
            volatility_level |-> VolatilityLevel(atr, current_price) ]

\* a float that is NaN
NaN == [k |-> "nan"]

\* _safe_float, data_aggregator.py lines 1273-1281
SafeFloat(value, default) == IF value = NaN THEN default ELSE value

\* Series.rolling(window).mean().iloc[-1]
RollingMean(closes, window) ==
    IF Len(closes) < window THEN NaN
    ELSE RDiv(RSum(closes, Len(closes) - window + 1, Len(closes)),
              Whole(window))

\* a > b of two floats, False when one is NaN
Gt(a, b) == a # NaN /\ b # NaN /\ RLess(b, a)

\* calculate_indicators, data_aggregator.py lines 1049-1270, for a frame
\* of fewer than 15 candles: the moving averages, the RSI (NaN below the
\* min_periods of its smoothing), the trend and the cross status; an
\* empty frame raises IndexError at the first .iloc[-1]
CalculateIndicators(df) ==
    IF df = << >> THEN [k |-> "raised", error |-> "IndexError"]
    ELSE
      LET closes == [i \in 1..Len(df) |-> df[i].close]
          sma_20 == RollingMean(closes, 20)
          sma_50 == RollingMean(closes, IF Len(df) < 50 THEN Len(df) ELSE 50)
          current_price == closes[Len(closes)]
      IN  Some([ sma_20 |-> SafeFloat(sma_20, Whole(0)),
                 sma_50 |-> SafeFloat(sma_50, Whole(0)),
                 rsi_14 |-> SafeFloat(NaN, Whole(50)),
                 trend_status |->
                     IF Gt(current_price, sma_20) /\ Gt(sma_20, sma_50)
                     THEN "bullish"
                     ELSE IF Gt(sma_20, current_price) /\ Gt(sma_50, sma_20)
                          THEN "bearish"
                          ELSE "neutral",
                 ma_cross_status |->
                     IF Gt(sma_20, sma_50) THEN "duotou" ELSE "kongtou" ])

\* the longest list of prices and of candles
MaxPrices == 4

MaxKlines == 3

IndicatorPrices == { 95, 100, 110 }

PriceLists ==
    UNION { [1..n -> { Whole(v) : v \in IndicatorPrices }] :
              n \in 0..MaxPrices }

IndicatorKlines ==
    { MkKline(105, 95, 102), MkKline(110, 100, 101), MkKline(99, 90, 92) }

KlineLists == UNION { [1..n -> IndicatorKlines] : n \in 0..MaxKlines }

\* periods short enough for the lists to be longer than them
Periods == { 2, 3 }

IndicatorCalls ==
    { [fn |-> f, prices |-> ps, period |-> n] :
        f \in { "calculate_sma", "calculate_ema", "calculate_rsi",
                "calculate_bollinger_bands" },
        ps \in PriceLists, n \in Periods }
    \cup { [fn |-> "calculate_macd", prices |-> ps, fast |-> n[1],
            slow |-> n[2], signal |-> n[3]] :
             ps \in PriceLists, n \in { <<1, 2, 2>>, <<2, 3, 2>> } }
    \cup { [fn |-> "calculate_atr", klines |-> ks, period |-> n] :
             ks \in KlineLists, n \in Periods }
    \cup { [fn |-> f, klines |-> ks] :
             f \in { "analyze", "calculate_indicators" }, ks \in KlineLists }

IndicatorInit ==
    /\ call \in IndicatorCalls
    /\ ret = Pending
    /\ ctx = Context(0, 0, 0, 0, << >>)
    /\ input = IdleDraft
    /\ result = IdleDraft
    /\ out1 = IdleDraft
    /\ fr = Frame0
    /\ pc = "idle"
    /\ raised = FALSE
    /\ run = 1
    /\ ServicesIdle

DoCalculateSma ==
    /\ call.fn = "calculate_sma"
    /\ Return(Some(CalculateSma(call.prices, call.period)))

DoCalculateEma ==
    /\ call.fn = "calculate_ema"
    /\ Return(Some(CalculateEma(call.prices, call.period)))

DoCalculateRsi ==
    /\ call.fn = "calculate_rsi"
    /\ Return(Some(CalculateRsi(call.prices, call.period)))

DoCalculateMacd ==
    /\ call.fn = "calculate_macd"
    /\ Return(Some(CalculateMacd(call.prices, call.fast, call.slow,
                                 call.signal)))

DoCalculateBollingerBands ==
    /\ call.fn = "calculate_bollinger_bands"
    /\ Return(Some(CalculateBollingerBands(call.prices, call.period, 2)))

DoCalculateAtr ==
    /\ call.fn = "calculate_atr"
    /\ Return(Some(CalculateAtr(call.klines, call.period)))

DoAnalyze ==
    /\ call.fn = "analyze"
    /\ Return(Some(Analyze(call.klines)))

DoCalculateIndicators ==
    /\ call.fn = "calculate_indicators"
    /\ Return(CalculateIndicators(call.klines))

IndicatorNext ==
    \/ DoCalculateSma
    \/ DoCalculateEma
    \/ DoCalculateRsi
    \/ DoCalculateMacd
    \/ DoCalculateBollingerBands
    \/ DoCalculateAtr
    \/ DoAnalyze
    \/ DoCalculateIndicators

IndicatorSpec == IndicatorInit /\ [][IndicatorNext]_vars

----------------------------------------------------------------------------
(* Properties *)

Returned == pc = "returned"

AcceptedLong == Returned /\ result.prediction = Str(KanZhang)

AcceptedShort == Returned /\ result.prediction = Str(KanDie)

Neutral == Returned /\ result.prediction = Str(ZhenDang)

IsNum(x) == x.k = "num"

\* the returned entry zone, stop and targets are numbers
NumericPlan(r) ==
    /\ r.entry_zone.k = "dict"
    /\ IsNum(r.entry_zone.low)
    /\ IsNum(r.entry_zone.high)
    /\ IsNum(r.stop_loss)
    /\ r.take_profit.k = "list"
    /\ r.take_profit.v # <<>>

OutLow == result.entry_zone.low.v

OutHigh == result.entry_zone.high.v

OutMid == (OutLow + OutHigh) \div 2

OutStop == result.stop_loss.v

OutTargets == result.take_profit.v

\* C1: whenever the validator returns "看涨" the returned fields satisfy
\* stop_loss < entry low <= entry high < take_profit[0], and whenever it
\* returns "看跌" they satisfy take_profit[0] < entry low <= entry high <
\* stop_loss.
C1_StopEntryTargetOrder ==
    /\ AcceptedLong =>
          /\ NumericPlan(result)
          /\ OutStop < OutLow
          /\ OutLow <= OutHigh
          /\ OutHigh < OutTargets[1]
    /\ AcceptedShort =>
          /\ NumericPlan(result)
          /\ OutTargets[1] < OutLow
          /\ OutLow <= OutHigh
          /\ OutHigh < OutStop

\* C2: every recommendation returned "看涨" or "看跌" has
\* |take_profit[0] - entry mid| / |entry mid - stop_loss| >= 1.2, a draft
\* below 1.2 being returned "震荡" with an explanatory reasoning line; the
\* draft entry=[100,102], stop=95, targets=[103.5] at price 101 is returned
\* "震荡".
C2_FirstTargetRRRAtLeast1_2 ==
    /\ (AcceptedLong \/ AcceptedShort) /\ NumericPlan(result) =>
          Abs(OutTargets[1] - OutMid) >= MulDiv(Abs(OutMid - OutStop), 6, 5)
    /\ ( /\ Returned
         /\ run = 1
         /\ ctx.current_price = Px(101)
         /\ input.prediction = Str(KanZhang)
         /\ input.entry_zone = Zone(Num(Px(100)), Num(Px(102)))
         /\ input.stop_loss = Num(Px(95))
         /\ input.take_profit = List(<<PxHalf(103)>>) ) =>
          /\ Neutral
          /\ result.reasoning.v # <<>>
          /\ result.reasoning.v[1].kind = "rrr_downgrade"

\* the parsed first target lies above / below the parsed entry midpoint
C3_PriceLong == fr.tps # <<>> /\ fr.tps[1] > fr.avg_entry

C3_PriceShort == fr.tps # <<>> /\ fr.tps[1] < fr.avg_entry

C3_Conflict ==
    \/ (C3_PriceLong /\ TextShort(fr.p))
    \/ (C3_PriceShort /\ TextLong(fr.p))

C3_Resolved ==
    C3_PriceLong \/ C3_PriceShort \/ TextLong(fr.p) \/ TextShort(fr.p)

\* the flags the direction step left in the locals
C3_FlagsConflict ==
    \/ (fr.is_price_long /\ fr.is_text_short)
    \/ (fr.is_price_short /\ fr.is_text_long)

C3_ConflictLinesFirst ==
    /\ result.reasoning.k = "list"
    /\ result.reasoning.v # <<>>
    /\ result.reasoning.v[1].kind = "direction_conflict"
    /\ result.risk_warning.k = "list"
    /\ result.risk_warning.v # <<>>
    /\ result.risk_warning.v[1].kind = "conflict_downgrade"

C4_Idempotent == (Returned /\ run = 2) => result = out1

Increasing(t) == \A i \in 1..(Len(t) - 1) : t[i] <= t[i + 1]

Decreasing(t) == \A i \in 1..(Len(t) - 1) : t[i] >= t[i + 1]

\* C5: in every "看涨" output every target is above the entry high and the
\* list is non-decreasing; in every "看跌" output every target is below the
\* entry low and the list is non-increasing.
C5_TargetsBeyondEntry ==
    /\ AcceptedLong =>
          /\ NumericPlan(result)
          /\ \A i \in 1..Len(OutTargets) : OutTargets[i] > OutHigh
          /\ Increasing(OutTargets)
    /\ AcceptedShort =>
          /\ NumericPlan(result)
          /\ \A i \in 1..Len(OutTargets) : OutTargets[i] < OutLow
          /\ Decreasing(OutTargets)

\* C6: every "看涨" output has entry high <= price * 1.0005, every "看跌"
\* output has entry low >= price * 0.9995, and in both entry low <= high.
C6_AntiChase ==
    /\ AcceptedLong =>
          /\ NumericPlan(result)
          /\ OutHigh <= MulDiv(ctx.current_price, 2001, 2000)
          /\ OutLow <= OutHigh
    /\ AcceptedShort =>
          /\ NumericPlan(result)
          /\ OutLow >= MulDiv(ctx.current_price, 1999, 2000)
          /\ OutLow <= OutHigh

\* C7: with n signal conflicts the returned confidence is <= 80 when n = 1,
\* <= 70 when n = 2, <= 60 when n >= 3, and the draft confidence when n = 0.
C7_ConfidenceCaps ==
    LET n == Len(ctx.signal_conflicts) IN
    Returned =>
        /\ n = 0 => result.confidence = input.confidence
        /\ n = 1 /\ IsNum(result.confidence) => result.confidence.v <= 80
        /\ n = 2 /\ IsNum(result.confidence) => result.confidence.v <= 70
        /\ n >= 3 /\ IsNum(result.confidence) => result.confidence.v <= 60

\* the key levels right after _validate_key_levels ran on the draft's levels
AfterKeyLevels == pc = "sanitize"

DraftLevels == input.key_levels

OutLevels == result.key_levels

C8_Set(level) == IsNum(level) /\ level.v > 0

\* a set support at or above the price becomes price * n / d and is then
\* below the price; any other support is unchanged
C8_SupportAnchored(draft, out, n, d) ==
    /\ C8_Set(draft) /\ draft.v >= ctx.current_price =>
          out = Num((ctx.current_price \div d) * n)
    /\ ~(C8_Set(draft) /\ draft.v >= ctx.current_price) => out = draft
    /\ IsNum(out) => out.v < ctx.current_price

\* a set resistance at or below the price becomes price * n / d and is then
\* above the price; any other resistance is unchanged
C8_ResistanceAnchored(draft, out, n, d) ==
    /\ C8_Set(draft) /\ draft.v <= ctx.current_price =>
          out = Num((ctx.current_price \div d) * n)
    /\ ~(C8_Set(draft) /\ draft.v <= ctx.current_price) => out = draft
    /\ C8_Set(draft) => out.v > ctx.current_price

C9_CurrentPriceOverwritten ==
    Returned => result.key_levels.current_price = Num(ctx.current_price)

\* stop_loss, take_profit or an entry bound is absent or null in the draft
C10_Incomplete(d) ==
    \/ d.stop_loss.k # "num"
    \/ d.take_profit.k # "list"
    \/ d.entry_zone.k # "dict"
    \/ d.entry_zone.low.k # "num"
    \/ d.entry_zone.high.k # "num"

\* C10: a draft whose stop_loss, take_profit or entry bounds are absent or
\* null is never returned unvalidated: the missing values count as zero /
\* empty and the returned dict carries a checked label and numeric entry
\* zone, stop and target list.
C10_IncompleteDraftValidated ==
    (Returned /\ run = 1 /\ C10_Incomplete(input)) =>
        /\ ~raised
        /\ result.prediction \in { Str(KanZhang), Str(KanDie), Str(ZhenDang) }
        /\ result.entry_zone.k = "dict"
        /\ IsNum(result.entry_zone.low)
        /\ IsNum(result.entry_zone.high)
        /\ IsNum(result.stop_loss)
        /\ result.take_profit.k = "list"

\* the dict the caller passed: the parameter "result" is written in place and
\* every return statement returns that same object
DraftObject == result

\* C11: the validator leaves the draft dict passed to it (its nested
\* entry_zone, key_levels, reasoning and risk_warning included) and the
\* context unchanged: after the call the draft object still holds the values
\* it held at the call.
C11_DraftUntouched == (Returned /\ run = 1) => DraftObject = input

\* the draft target t lies beyond the returned entry zone on the side of the
\* returned direction and within 5 ATR of the returned entry midpoint
C12_GoodTarget(t) ==
    /\ Abs(t - OutMid) <= 5 * ctx.atr
    /\ (AcceptedLong => t > OutHigh)
    /\ (AcceptedShort => t < OutLow)

\* C12: in a recommendation returned "看涨" or "看跌" every draft target on
\* the correct side of the entry zone and within 5 ATR of the entry midpoint
\* is returned unchanged at the same position; entry=[100,102], stop=95,
\* targets=[110,115], ATR=3 returns take_profit[0] = 110.
C12_GoodTargetsKept ==
    /\ ( /\ AcceptedLong \/ AcceptedShort
         /\ run = 1
         /\ input.take_profit.k = "list"
         /\ NumericPlan(result) ) =>
          \A i \in 1..Len(input.take_profit.v) :
              C12_GoodTarget(input.take_profit.v[i]) =>
                  /\ i <= Len(OutTargets)
                  /\ OutTargets[i] = input.take_profit.v[i]
    /\ ( /\ Returned
         /\ run = 1
         /\ ctx.current_price = Px(101)
         /\ ctx.atr = Px(3)
         /\ input.prediction = Str(KanZhang)
         /\ input.entry_zone = Zone(Num(Px(100)), Num(Px(102)))
         /\ input.stop_loss = Num(Px(95))
         /\ input.take_profit = List(<<Px(110), Px(115)>>) ) =>
          OutTargets[1] = Px(110)

\* C13: with ATR > 0, in a recommendation returned "看涨" or "看跌" no target
\* is left farther than 5 ATR from the entry midpoint: the target at 0-based
\* index i that was is replaced by mid + 3 * ATR * (i + 1) for long and
\* mid - 3 * ATR * (i + 1) for short.
C13_FarTargetsClamped ==
    ((AcceptedLong \/ AcceptedShort) /\ ctx.atr > 0) =>
        /\ NumericPlan(result)
        /\ \A i \in 1..Len(OutTargets) :
              \/ Abs(OutTargets[i] - OutMid) <= 5 * ctx.atr
              \/ AcceptedLong /\ OutTargets[i] = OutMid + 3 * ctx.atr * i
              \/ AcceptedShort /\ OutTargets[i] = OutMid - 3 * ctx.atr * i

\* C14: with ATR > 0 every output returned "看涨" or "看跌" has
\* entry_zone.high - entry_zone.low <= 2 * ATR.
C14_ZoneWidthBounded ==
    ((AcceptedLong \/ AcceptedShort) /\ ctx.atr > 0) =>
        /\ result.entry_zone.k = "dict"
        /\ IsNum(result.entry_zone.low)
        /\ IsNum(result.entry_zone.high)
        /\ OutHigh - OutLow <= 2 * ctx.atr

----------------------------------------------------------------------------
(* Properties of the market-structure functions *)

\* the call of the function fn has returned
ReturnedFrom(fn) == call.fn = fn /\ ret # Pending

\* C15: for every band width, funding rate, whale summary and gap list
\* _calculate_volatility_score returns a value in [0, 100] that is not 0, and
\* the contributions are at most 30 (band), 20 (funding), 35 (large trades)
\* and 25 (liquidity gaps).
C15_ScoreBounds ==
    ReturnedFrom("_calculate_volatility_score") =>
        /\ ret.v > 0
        /\ ret.v <= 100
        /\ BandPoints(call.bb_width) \in 0..30
        /\ FundingPoints(call.funding_rate) \in 0..20
        /\ WhalePoints(call.whale_data) \in 0..35
        /\ GapPoints(call.gaps) \in 0..25
        /\ ret.v <= Max2(12, BandPoints(call.bb_width)
                             + FundingPoints(call.funding_rate)
                             + WhalePoints(call.whale_data)
                             + GapPoints(call.gaps))

\* a wide band and no warning at all returned the floor 5, and all four
\* warnings together were cut to 100
C15_Witness ==
    /\ ReturnedFrom("_calculate_volatility_score")
    /\ \/ /\ call.bb_width = 200
          /\ call.funding_rate = NullNum
          /\ call.whale_data = EmptyDict
          /\ call.gaps = << >>
          /\ ret = Num(5)
       \/ /\ call.bb_width = 20
          /\ call.funding_rate = Num(-51)
          /\ call.whale_data.k = "dict"
          /\ call.whale_data.whale_ratio = Num(41)
          /\ call.whale_data.net_whale_vol = Num(-1000001)
          /\ call.gaps # << >>
          /\ ret = Num(100)

\* the series of a _calculate_vpvr call: its price range, its profile (every
\* entry times CallScale) and its total volume
CallLow == MinLow(call.df, 1, Len(call.df))

CallHigh == MaxHigh(call.df, 1, Len(call.df))

CallProfile == VolumeProfile(call.df, CallLow, CallHigh, call.bins)

CallScale ==
    ShareScale(MaskSumsTo(call.df, CallLow, CallHigh, call.bins, Len(call.df)))

CallVolume ==
    SumTo([j \in 1..Len(call.df) |-> call.df[j].volume], Len(call.df))

\* the bins whose midpoint lies in [val, vah]
C16_Enclosed(val, vah) ==
    { i \in 0..(call.bins - 1) :
        /\ BinMid(CallLow, CallHigh, call.bins, i) >= val
        /\ BinMid(CallLow, CallHigh, call.bins, i) <= vah }

\* C16: the volume profile reports a value area [val, vah] that contains the
\* POC and encloses at least 70% of the total volume.
C16_ValueAreaReported ==
    (ReturnedFrom("_calculate_vpvr") /\ IsNum(ret.hvn)) =>
        /\ { "val", "vah" } \subseteq DOMAIN ret
        /\ IsNum(ret.val)
        /\ IsNum(ret.vah)
        /\ ret.val.v <= ret.hvn.v
        /\ ret.hvn.v <= ret.vah.v
        /\ LET profile == CallProfile
               inside == C16_Enclosed(ret.val.v, ret.vah.v)
           IN  10 * SumTo([n \in 1..call.bins |->
                              IF (n - 1) \in inside THEN profile[n] ELSE 0],
                          call.bins)
               >= 7 * SumTo(profile, call.bins)

\* hvn is the midpoint of a bin of maximal volume, and the bins together hold
\* the whole volume of the candles
C17_PocOfProfile ==
    /\ IsNum(ret.hvn)
    /\ LET profile == CallProfile
           low == CallLow
           high == CallHigh
       IN  /\ \E i \in 0..(call.bins - 1) :
                 /\ ret.hvn.v = BinMid(low, high, call.bins, i)
                 /\ \A j \in 1..call.bins : profile[j] <= profile[i + 1]
           /\ SumTo(profile, call.bins) = CallScale * CallVolume

\* C17 as stated: for every non-empty candle series with positive total
\* volume the POC (hvn) is the midpoint of a price bin of maximal volume, the
\* volume of each candle being fully attributed to the bins it overlaps.
C17_PocEverySeries ==
    ( /\ ReturnedFrom("_calculate_vpvr")
      /\ Len(call.df) >= 1
      /\ CallVolume > 0 ) => C17_PocOfProfile

\* C17 (amended): for every series of at least 5 candles with positive total
\* volume whose highest high is above its lowest low, hvn is the midpoint of
\* a price bin of maximal volume, the volume of each candle being fully
\* attributed to the bins it overlaps; for a series of fewer than 5 candles
\* or with a single price, hvn is None.
C17_PocOfFiveCandles ==
    ReturnedFrom("_calculate_vpvr") =>
        IF Len(call.df) >= 5 /\ CallHigh > CallLow
        THEN C17_PocOfProfile
        ELSE ret.hvn = NullNum

\* a profile of the default 40 bins whose fullest bin is not the lowest one
C17_Witness ==
    /\ ReturnedFrom("_calculate_vpvr")
    /\ call.bins = DefaultBins
    /\ Len(call.df) >= 5
    /\ IsNum(ret.hvn)
    /\ ret.hvn.v # BinMid(CallLow, CallHigh, call.bins, 0)
    /\ LET profile == CallProfile
       IN  profile[1] < profile[ArgMaxIn(profile, 1..call.bins)]

\* the last close of the series
C18_Price == call.df[Len(call.df)].close

\* the bins of least volume among those lying wholly within 5% of the price
C18_Vacuums ==
    LET near == NearbyMask(C18_Price, CallLow, CallHigh, call.bins)
        profile == CallProfile
    IN  { i \in near : \A j \in near : profile[i + 1] <= profile[j + 1] }

\* C18: whenever _calculate_vpvr reports a low-volume node (lvn), it lies
\* within 5% of the current price, 0.95 * price <= lvn <= 1.05 * price, and
\* is the low-volume node nearest the price inside that range.
C18_VacuumNearPrice ==
    (ReturnedFrom("_calculate_vpvr") /\ IsNum(ret.lvn)) =>
        /\ ret.lvn.v >= MulDiv(C18_Price, 19, 20)
        /\ ret.lvn.v <= MulDiv(C18_Price, 21, 20)
        /\ LET vacuums == C18_Vacuums
               low == CallLow
               high == CallHigh
           IN  \E i \in vacuums :
                  /\ ret.lvn.v = BinMid(low, high, call.bins, i)
                  /\ \A j \in vacuums :
                        Abs(ret.lvn.v - C18_Price)
                        <= Abs(BinMid(low, high, call.bins, j) - C18_Price)

\* the rows that end a three-candle window (c1, c2, c3) with a gap: the low
\* of c3 above the high of c1, or the high of c3 below the low of c1
C19_Windows ==
    { i \in 3..Len(call.df) :
        \/ call.df[i].low > call.df[i - 2].high
        \/ call.df[i].high < call.df[i - 2].low }

\* the three most recent of them
C19_Recent ==
    { w \in C19_Windows : Cardinality({ u \in C19_Windows : u > w }) < 3 }

\* the k-th oldest of the recent windows
C19_Nth(k) ==
    CHOOSE w \in C19_Recent :
        Cardinality({ u \in C19_Recent : u < w }) = k - 1

\* g is the gap of the window ending at row w
C19_GapOf(g, w) ==
    LET c1 == call.df[w - 2]
        c3 == call.df[w]
    IN  /\ g.top > g.bottom
        /\ IF c3.low > c1.high
           THEN g.type = "bullish" /\ g.top = c3.low /\ g.bottom = c1.high
           ELSE g.type = "bearish" /\ g.top = c1.low /\ g.bottom = c3.high

\* the returned list is the gaps of the recent windows, oldest first
C19_GapsRecorded ==
    /\ Len(ret.fvg_gaps) = Cardinality(C19_Recent)
    /\ \A n \in 1..Len(ret.fvg_gaps) : C19_GapOf(ret.fvg_gaps[n], C19_Nth(n))

\* C19 as stated: for every 3-candle window (c1, c2, c3) of the series a
\* bullish gap bounded by high(c1) and low(c3) is recorded iff
\* low(c3) > high(c1) and a bearish gap bounded by low(c1) and high(c3) iff
\* high(c3) < low(c1); the returned list holds only the 3 most recent
\* recorded gaps in chronological order, each with top > bottom.
C19_GapsEveryWindow ==
    ReturnedFrom("_detect_smc_indicators") => C19_GapsRecorded

\* C19 (amended): for a series of at least 10 candles the gaps are recorded
\* as stated and the 3 most recent are returned in chronological order, each
\* with top > bottom; for a series of fewer than 10 candles no gap is
\* returned.
C19_GapsOfTenCandles ==
    ReturnedFrom("_detect_smc_indicators") =>
        IF Len(call.df) >= 10 THEN C19_GapsRecorded
        ELSE ret.fvg_gaps = << >>

\* more than three windows had a gap, of both kinds, and three were returned
C19_Witness ==
    /\ ReturnedFrom("_detect_smc_indicators")
    /\ Len(call.df) >= 10
    /\ Cardinality(C19_Windows) > 3
    /\ Len(ret.fvg_gaps) = 3
    /\ \E a, b \in 1..3 :
          ret.fvg_gaps[a].type = "bullish" /\ ret.fvg_gaps[b].type = "bearish"

\* C20: whenever _calculate_swing_levels(df, N) returns levels they are
\* max(high) and min(low), to the cent, over exactly the N candles before the
\* last candle, which never contributes; and the pivot levels are those of
\* the candle immediately before the last one.
C20_ClosedCandlesOnly ==
    /\ (ReturnedFrom("_calculate_swing_levels") /\ ret.k = "dict") =>
          LET n == Len(call.df)
              N == call.window
          IN  /\ n - N >= 1
              /\ ret.recent_high =
                     Round2(Mills(MaxHigh(call.df, n - N, n - 1)), 1)
              /\ ret.recent_low =
                     Round2(Mills(MinLow(call.df, n - N, n - 1)), 1)
    /\ (ReturnedFrom("_calculate_pivot_points") /\ ret.k = "dict") =>
          ret = PivotsOf(call.df[Len(call.df) - 1])

----------------------------------------------------------------------------
(* Properties of the validation run as a whole *)

\* the stop, targets, entry zone, confidence and key levels of the draft r
C23_Plan(r) ==
    << r.stop_loss, r.take_profit, r.entry_zone, r.confidence, r.key_levels >>

\* the same values as the validator holds them after the direction step: the
\* stop, targets and entry zone in its locals, the rest in the draft
C23_HeldPlan ==
    << Num(fr.sl), List(fr.tps), Zone(Num(fr.entry_low), Num(fr.entry_high)),
       result.confidence, result.key_levels >>

\* a step of the run has set the label to "震荡" and the run has not returned
C23_Downgraded ==
    /\ pc \notin { "extract", "direction", "returned" }
    /\ result.prediction = Str(ZhenDang)

\* C23: within one validation run, once a step (direction conflict or RRR
\* gate) has set prediction to "震荡" the label never changes back and no
\* later step executes: the run returns, and the returned stop, targets,
\* entry zone, confidence and key levels are the values held at the moment
\* of the downgrade.
C23_DowngradeIsFinal ==
    [][ (C23_Downgraded /\ run' = run) =>
            /\ pc' = "returned"
            /\ result'.prediction = result.prediction
            /\ C23_Plan(result') =
                   IF pc = "antichase" THEN C23_HeldPlan
                   ELSE C23_Plan(result) ]_vars

\* C24: every recommendation returned "看涨" or "看跌" has a total
\* risk:reward of at least 1.5 on the returned values,
\* |take_profit[last] - entry mid| / |entry mid - stop_loss| >= 1.5, with
\* take_profit[0] at exactly 1:1 distance, also after the stop-loss vacuum
\* adjustment, the target clamp and the entry-zone shrink have run.
C24_TotalRRRAtLeast1_5 ==
    (AcceptedLong \/ AcceptedShort) =>
        /\ NumericPlan(result)
        /\ 2 * Abs(OutTargets[Len(OutTargets)] - OutMid)
           >= 3 * Abs(OutMid - OutStop)
        /\ Abs(OutTargets[1] - OutMid) = Abs(OutMid - OutStop)

----------------------------------------------------------------------------
(* Properties of the services *)

\* the keys that the step removed from the cache, the key being set apart
C29_Evicted == (KeysOf(cache) \ KeysOf(cache')) \ { op'.key }

\* C29: TTLCache is a bounded LRU cache: after any sequence of get / set /
\* delete it holds at most maxsize entries, set evicts an entry only when
\* it inserts a key that is not present into a full cache, and the evicted
\* entry is the least recently used one (least recently returned by get or
\* written by set).
C29_BoundedLru ==
    /\ [](Len(cache) <= maxsize)
    /\ [][ (op'.name = "set" /\ Len(cache') < Len(cache) + 1) =>
              \/ op'.key \in KeysOf(cache) /\ Len(cache') = Len(cache)
              \/ /\ op'.key \notin KeysOf(cache)
                 /\ Len(cache) = maxsize
                 /\ Len(cache') = Len(cache)
                 /\ C29_Evicted = { recency[1] } ]_vars

\* C25: when analyze_market_stream has streamed a complete response that
\* parses into a valid result, that result is in the analysis cache under
\* the symbol and timeframe of the request when the stream ends, so that a
\* cached lookup for them is then a hit and needs no second model call.
C25_StreamResultCached ==
    [][ ( /\ stream.pc = "open"
          /\ stream'.pc = "closed"
          /\ stream.valid
          /\ stream.full_content # << >> ) =>
            CacheGet(cache', MakeCacheKey(stream.symbol, stream.timeframe),
                     now').ret = Some(stream.result) ]_vars

\* the API calls made in outer attempt o of this call of analyze_market
C26_CallsOf(o) == { i \in 1..Len(analysis.log) : analysis.log[i].outer = o }

\* C26: one call of analyze_market makes at most 6 model API calls (at
\* most 3 outer attempts of at most 2 inner attempts each); the model is
\* switched to deepseek-chat at most once per outer attempt, and only from
\* a reasoner model on its first inner attempt; a ValueError that leaves
\* the inner loop is never retried by the outer retry.
C26_RetryBudget ==
    /\ [](/\ Len(analysis.log) <= 6
          /\ analysis.outer \in 1..3
          /\ \A o \in 1..3 : Cardinality(C26_CallsOf(o)) <= 2
          /\ \A i \in 1..Len(analysis.log) :
                LET made == analysis.log[i]
                IN  made.attempt = 1 =>
                      /\ made.model = "deepseek-chat"
                      /\ i > 1
                      /\ analysis.log[i - 1].outer = made.outer
                      /\ analysis.log[i - 1].attempt = 0
                      /\ IsReasoner(analysis.log[i - 1].model))
    /\ [][ /\ ( /\ analysis.pc = "call"
                /\ analysis'.pc = "call"
                /\ analysis'.active_model # analysis.active_model ) =>
                  /\ analysis'.active_model = "deepseek-chat"
                  /\ IsReasoner(analysis.active_model)
                  /\ analysis.attempt = 0
                  /\ analysis'.outer = analysis.outer
           /\ (analysis.pc = "raised" /\ analysis.exc = "ValueError") =>
                  /\ analysis'.pc = "failed"
                  /\ analysis'.log = analysis.log ]_vars

\* the sixth API call of one analyze_market call has failed as well
C26_Witness ==
    /\ analysis.pc = "failed"
    /\ Len(analysis.log) = 6
    /\ analysis.log[6].model = "deepseek-chat"

\* the production tasks of a symbol that have not been cancelled or ended
C27_Producing(symbol) ==
    { id \in 1..Len(manager.pool) :
        /\ manager.pool[id].symbol = symbol
        /\ manager.pool[id].pc # "done"
        /\ ~manager.pool[id].must_cancel }

\* C27: after any interleaving of subscribe and unsubscribe calls, for
\* every symbol: while it has a subscriber exactly one production task
\* exists (the one in _tasks); when it has none there is no production
\* task and no snapshot (get_latest returns None), and a cancelled task
\* never writes a snapshot afterwards.
C27_OneTaskPerWatchedSymbol ==
    /\ [](\A symbol \in WatchedSymbols :
            IF manager.subscribers[symbol] # {}
            THEN C27_Producing(symbol) = { manager.tasks[symbol] }
            ELSE /\ C27_Producing(symbol) = {}
                 /\ manager.tasks[symbol] = Absent
                 /\ GetLatest(manager, symbol) = None)
    /\ [][ op'.name = "write" =>
             /\ ~manager.pool[op'.task].must_cancel
             /\ manager.subscribers[manager.pool[op'.task].symbol] # {} ]_vars

\* a symbol is watched again after its first task was cancelled mid-loop,
\* and the cancelled task has ended without leaving a snapshot
C27_Witness ==
    \E symbol \in WatchedSymbols :
        /\ manager.subscribers[symbol] # {}
        /\ manager.tasks[symbol] = 2
        /\ manager.pool[1].symbol = symbol
        /\ manager.pool[1].pc = "done"
        /\ manager.shared_state[symbol] = 2

\* the analyze_symbol executions in progress
C28_InProgress ==
    { i \in 1..Len(batch.tasks) : batch.tasks[i].pc = "running" }

\* the response holds one result per input symbol, in input order, and its
\* counts add up
C28_Response ==
    batch.response # None =>
        LET r == batch.response.v
        IN  /\ Len(r.results) = Len(batch.symbols)
            /\ \A i \in 1..Len(batch.symbols) :
                  r.results[i].symbol = batch.symbols[i]
            /\ r.total = Len(batch.symbols)
            /\ r.success + r.failed + r.cached = r.total

\* C28: during one batch_analyze call the analyze_symbol executions in
\* progress never exceed max_concurrency, every input symbol is analysed
\* exactly once even when other symbols fail, and the response holds one
\* result per input symbol in input order with success + failed + cached
\* = total = the number of input symbols.
C28_EverySymbolAnalysedOnce ==
    /\ Cardinality(C28_InProgress) <= batch.max_concurrency
    /\ \A i \in 1..Len(batch.tasks) : batch.tasks[i].runs <= 1
    /\ C28_Response
    /\ batch.response # None =>
          \A i \in 1..Len(batch.tasks) : batch.tasks[i].runs = 1

\* C28 as the code has it: a symbol whose progress callback raises is
\* reported as failed without being analysed; every other symbol is
\* analysed exactly once.
C28_AnalysedOnceUnlessCallbackRaises ==
    /\ Cardinality(C28_InProgress) <= batch.max_concurrency
    /\ \A i \in 1..Len(batch.tasks) : batch.tasks[i].runs <= 1
    /\ C28_Response
    /\ batch.response # None =>
          \A i \in 1..Len(batch.tasks) :
              IF batch.tasks[i].returned = "exception"
              THEN /\ batch.tasks[i].runs = 0
                   /\ batch.response.v.results[i].status = "failed"
              ELSE /\ batch.tasks[i].runs = 1
                   /\ batch.response.v.results[i].status =
                         batch.tasks[i].returned

\* three symbols went through two slots: one failed, one came from the
\* cache, one succeeded
C28_Witness ==
    /\ batch.response # None
    /\ batch.max_concurrency = 2
    /\ Len(batch.symbols) = 3
    /\ batch.response.v.failed = 1
    /\ batch.response.v.cached = 1
    /\ batch.response.v.success = 1
    /\ \A i \in 1..3 : batch.tasks[i].runs = 1

C30_Price(alert) == alert.type \in { "pump", "dump" }

\* alerts i < j are price alerts of one direction less than 60 s apart
C30_TooClose(i, j) ==
    /\ C30_Price(monitor.alerts[i])
    /\ monitor.alerts[j].type = monitor.alerts[i].type
    /\ monitor.alerts[j].timestamp - monitor.alerts[i].timestamp < 60

\* a volume_spike alert comes more than 60 s after the alert before it
C30_VolumeSpikeAfterCooldown ==
    \A j \in 2..Len(monitor.alerts) :
        monitor.alerts[j].type = "volume_spike" =>
            monitor.alerts[j].timestamp - monitor.alerts[j - 1].timestamp > 60

\* C30: for one symbol no two price alerts of the same direction are
\* emitted less than 60 seconds apart, whatever alerts occur in between;
\* a volume_spike alert is emitted only when more than 60 seconds have
\* passed since the symbol's last alert of any type.
C30_CooldownPerDirection ==
    /\ \A i, j \in 1..Len(monitor.alerts) : i < j => ~C30_TooClose(i, j)
    /\ C30_VolumeSpikeAfterCooldown

\* C30 as the code has it: the cooldown is counted from the last alert
\* only, so two price alerts of one direction are at least 60 seconds
\* apart unless an alert of the opposite direction was emitted between
\* them.
C30_CooldownSinceLastAlert ==
    /\ \A i, j \in 1..Len(monitor.alerts) :
          (i < j /\ C30_TooClose(i, j)) =>
              \E k \in (i + 1)..(j - 1) :
                  /\ C30_Price(monitor.alerts[k])
                  /\ monitor.alerts[k].type # monitor.alerts[i].type
    /\ C30_VolumeSpikeAfterCooldown

\* a pump, a dump right after it, a later volume spike, and a pump that
\* waited for the cooldown
C30_Witness ==
    /\ Len(monitor.alerts) = 4
    /\ monitor.alerts[1].type = "pump"
    /\ monitor.alerts[2].type = "dump"
    /\ monitor.alerts[2].timestamp - monitor.alerts[1].timestamp < 60
    /\ monitor.alerts[3].type = "volume_spike"
    /\ monitor.alerts[4].type = "pump"

----------------------------------------------------------------------------
(* Properties of the indicator functions *)

\* rsi 50, trend "neutral" and the moving averages at their default 0
C21_Defaults(r) ==
    /\ r.rsi_14 = Whole(50)
    /\ r.trend_status = "neutral"
    /\ r.sma_20 = Whole(0)
    /\ r.sma_50 = Whole(0)

\* C21: for a candle series of length 0, 1 or 2 both
\* TechnicalAnalyzer.analyze and calculate_indicators return the
\* all-default indicator set (rsi 50, trend "neutral", every other numeric
\* field at its default) and neither raises nor returns partially computed
\* values.
C21_ShortSeriesGiveDefaults ==
    /\ (ReturnedFrom("analyze") /\ Len(call.klines) <= 2) =>
          /\ C21_Defaults(ret.v)
          /\ \A f \in { "ema_12", "ema_26", "macd_line", "macd_signal",
                        "macd_histogram", "atr_14" } :
                ret.v[f] = DefaultIndicators[f]
          /\ \A f \in { "bb_upper", "bb_middle", "bb_lower", "bb_width" } :
                ret.v[f] = DefaultIndicators[f]
    /\ (ReturnedFrom("calculate_indicators") /\ Len(call.klines) <= 2) =>
          /\ ret.k # "raised"
          /\ C21_Defaults(ret.v)

\* the last price of a list that has one
C22_Last(prices) == prices[Len(prices)]

\* C22: for every series of positive prices or candles, of any length:
\* 0 <= RSI <= 100, bollinger upper >= middle >= lower and ATR >= 0; with
\* insufficient history SMA and EMA return the last price (0 when there is
\* no price at all), RSI returns 50 and MACD returns (0, 0, 0).
C22_IndicatorRanges ==
    /\ ReturnedFrom("calculate_rsi") =>
          /\ ~RLess(ret.v, Whole(0))
          /\ ~RLess(Whole(100), ret.v)
          /\ Len(call.prices) < call.period + 1 => ret.v = Whole(50)
    /\ ReturnedFrom("calculate_bollinger_bands") =>
          /\ SurdGeq(ret.v[1], ret.v[2])
          /\ SurdGeq(ret.v[2], ret.v[3])
    /\ ReturnedFrom("calculate_atr") => ~RLess(ret.v, Whole(0))
    /\ (ReturnedFrom("calculate_sma") \/ ReturnedFrom("calculate_ema")) =>
          (Len(call.prices) < call.period =>
              ret.v = IF call.prices = << >> THEN Whole(0)
                      ELSE C22_Last(call.prices))
    /\ ReturnedFrom("calculate_macd") =>
          (Len(call.prices) < call.slow =>
              ret.v = <<Whole(0), Whole(0), Whole(0)>>)
    /\ ReturnedFrom("analyze") =>
          /\ ~RLess(ret.v.rsi_14, Whole(0))
          /\ ~RLess(Whole(100), ret.v.rsi_14)
          /\ SurdGeq(ret.v.bb_upper, ret.v.bb_middle)
          /\ SurdGeq(ret.v.bb_middle, ret.v.bb_lower)
          /\ ~RLess(ret.v.atr_14, Whole(0))

\* a moving average of a list shorter than its period, whose last price
\* is not its first
C22_Witness ==
    /\ ReturnedFrom("calculate_ema")
    /\ Len(call.prices) = 2
    /\ call.period = 3
    /\ call.prices[1] # call.prices[2]
    /\ ret.v = call.prices[2]

====
